---- MODULE Spec2Model ----
(***************************************************************************)
(* The definition build & publish pipeline of the smply CLI.               *)
(*                                                                         *)
(* One run of one command is modelled: `machine-versions create`,          *)
(* `machine-versions validate-bundle`, `machines create`, `migrations       *)
(* create` (Node CLI, src/src/commands) and the Deno CLI's                 *)
(* `machine-versions create` (src/mod.ts).  The main async                 *)
(* flow is the variable pc; the _build calls started by build() are        *)
(* separate tasks (bpc) because Promise.all runs them concurrently.        *)
(***************************************************************************)
EXTENDS Integers, Sequences, FiniteSets, TLC

VARIABLES
    cmd,        \* the command that is run
    buildImpl,  \* which build() the command is linked with
    opts,       \* BuildOpts and the skip-validation flag
    req,        \* machine, versionReference and makeCurrent of the command line
    userShape,  \* what the file given to validate-bundle exports
    pc,         \* position of the command's async flow
    bpc,        \* position of each _build task
    berr,       \* error a _build task is about to throw ("none" if none)
    bout,       \* code a _build task read back from its output file
    bres,       \* what esbuild.build resolved with in a _build task
    selected,   \* the source kind buildFromCommand selected
    fsFile,     \* contents of the temp files that exist
    temps,      \* temp directories and files that exist on disk
    created,    \* temp directories and files ever created by the run
    art,        \* the BuildArtifact returned by buildFromCommand
    gz,         \* the gzipped payload
    sub,        \* the validation subprocess
    valOutcome, \* "none", "passed" or "failed": what validateBundle found
    ticket,     \* the VersionCreationTicket CreateVersion returned
    err,        \* error in flight in the main flow ("none" if none)
    result,     \* "Running", "Done" or "Failed"
    failure,    \* the category of the error the run failed with
    exitCode,   \* exit status of the CLI process ("none" while it runs)
    netLog,     \* backend requests in the order they were issued
    io,         \* kinds of I/O performed so far
    stderr,     \* what the run has written to the error stream
    reported,   \* what the command returned or printed about the version
    cnt,        \* how often each pipeline step was started
    source,     \* the file the source flag names: its text, and how often
                \* somebody else has rewritten it since the artifact exists
    runs,       \* two invocations side by side: where each is, what it holds
    tmpfs,      \* the temp directories of os.tmpdir() the invocations share
    del,        \* a run of `machines delete`: position, name, line typed,
                \* lines printed, requests sent, exit status
    pag,        \* a run of paginate: options, from, to, the ranges asked for
    auth        \* a run of a command that needs a session: the suppression
                \* flag of utils.ts, the login in progress, what was shown

pipelineVars == <<cmd, buildImpl, opts, pc, bpc, berr, bout, bres, selected, fsFile, temps, created,
          art, gz, sub, valOutcome, ticket, err, result, failure, exitCode, netLog, io,
          stderr, reported, userShape, req, cnt, source>>

vars == <<pipelineVars, runs, tmpfs, del, pag, auth>>

(***************************************************************************)
(* Bounds and value sets                                                   *)
(***************************************************************************)
\* number of distinct machineVersionId / upload URL values the backend may return
MaxTickets == 2

\* number of items the listed collection holds at most
MaxItems == 6

\* how often the source file is rewritten while the command runs
MaxEdits == 1

\* number of random suffixes mkdtemp can choose from
MaxSuffix == 3

Commands == {"mvCreate", "mCreate", "migCreate", "denoMvCreate", "validateBundle"}

\* a command-line string option: not given, given empty, given with a path
FlagValues == {"undefined", "", "path"}

\* artifact code: empty, honouring the module contract, violating it
CodeValues == {"", "ok", "bad"}

\* what a module exports under the names the validation script imports:
\* allowRead and allowWrite are functions, other values or not exported; the
\* default export is an object with the key __xstatenode ("machine"), an
\* object without it, null, a value that is no object, or not exported; its
\* definition property dereferences, throws on a dangling state reference,
\* or is absent
ExportKinds == {"function", "other", "missing"}

DefaultKinds == {"machine", "plain", "null", "primitive", "missing"}

DefinitionKinds == {"ok", "dangling", "absent"}

Shapes ==
    [allowRead : ExportKinds, allowWrite : ExportKinds,
     default : DefaultKinds, definition : DefinitionKinds]

GoodShape ==
    [allowRead |-> "function", allowWrite |-> "function",
     default |-> "machine", definition |-> "ok"]

\* a module without any export
EmptyModule ==
    [allowRead |-> "missing", allowWrite |-> "missing",
     default |-> "missing", definition |-> "absent"]

Variants == {"bundled", "externalized"}

BuildImpls == {"single", "pair", "deno"}

Steps == {"select", "build", "esbuild", "validate", "spawn", "gzip"}

ErrorKinds == {"ConfigurationError", "BuildError", "ValidationError",
               "CompressionError", "NetworkError", "FileSystemError",
               "AuthError"}

\* temp resources: the bundler's output directory and file per _build call,
\* the Deno bundler's temp file, and the validator's two workspaces
BuildDir(t) == IF t = "bundled" THEN "smply-1" ELSE "smply-2"
BuildFile(t) == IF t = "bundled" THEN "smply-1/machine.js" ELSE "smply-2/machine.js"
DenoFile == "makeTempFile"
ValDir == "machine-XXXXXX"
ValFile == "machine-XXXXXX/bundle.js"
VbDir == "bundle-XXXXXX"

\* mutant of VbFile: the bundle is validated where the caller put it
VbFileInPlace == ValFile

VbFile == "bundle-XXXXXX/bundle.mjs"

TempFiles == {BuildFile(t) : t \in Variants} \cup {DenoFile, ValFile, VbFile}

\* the file the user names with --js on validate-bundle
UserFile == "bundle.js"

Files == TempFiles \cup {UserFile}

NoArt == [fileName |-> "none", code |-> "none", bundled |-> "none"]

NoSub == "none"

NoTicket == [machineVersionId |-> 0, uploadUrl |-> 0, uploadFields |-> <<>>]

\* the codeUploadFields the backend may answer with, as the entries of the
\* object in their order: without and with a content-type key
UploadFieldMaps ==
    { << <<"key", "k1">> >>,
      << <<"key", "k1">>, <<"content-type", "application/javascript">> >>,
      << <<"content-type", "text/plain">>, <<"policy", "p1">> >> }

\* nothing reported about a version
NoReport == [machineVersionId |-> 0, versionReference |-> "none"]

\* what the caller gives on the command line: --machine, the required
\* --version-reference and --make-current (false unless given)
CallerRequests ==
    { [machine |-> "m1", versionReference |-> "v1", makeCurrent |-> "true"],
      [machine |-> "m2", versionReference |-> "v2", makeCurrent |-> "false"] }

\* the command line of 'machines create': --version-reference is optional
\* and there is no --make-current
MachineCallerRequests ==
    { [machine |-> "m1", versionReference |-> "v1", makeCurrent |-> "false"],
      [machine |-> "m2", versionReference |-> "undefined", makeCurrent |-> "false"] }

\* the request createMachine passes on: the version is made current and
\* the reference defaults to 0.0.1
MachineCreateRequest(r) ==
    [machine |-> r.machine,
     versionReference |-> IF r.versionReference = "undefined" THEN "0.0.1"
                          ELSE r.versionReference,
     makeCurrent |-> "true"]

\* a backend request as logged: the call, its state, and what it carried
Request(call, ver, url, body) ==
    [call |-> call, status |-> "pending", ver |-> ver, url |-> url, body |-> body,
     form |-> <<>>, machine |-> "none", clientInfo |-> "none",
     makeCurrent |-> "none"]

\* JavaScript truthiness of an option value
Boolean(v) == v \notin {"undefined", ""}

\* JavaScript truthiness of a string read from a file
NonEmpty(c) == c /= ""

\* mutant of SourceCount: counts only the two flags the error message names
SourceCountJsNode(o) ==
    LET given == <<o.js, o.node>>
    IN  Cardinality({i \in 1..2 : Boolean(given[i])})

\* [opts.js, opts.node, opts.deno].filter(Boolean).length
SourceCount(o) ==
    LET given == <<o.js, o.node, o.deno>>
    IN  Cardinality({i \in 1..3 : Boolean(given[i])})

\* the source the conditional chain of buildFromCommand picks
SelectedSource(o) ==
    IF Boolean(o.js) THEN "js"
    ELSE IF Boolean(o.deno) THEN "deno"
    ELSE IF Boolean(o.node) THEN "node"
    ELSE "null"

\* opts.js || opts.node || opts.deno
HasSourceFlag(o) == Boolean(o.js) \/ Boolean(o.node) \/ Boolean(o.deno)

(***************************************************************************)
(* Initial state: the command line has been parsed, nothing has run        *)
(***************************************************************************)
\* the commands that validate the bundle unless told to skip it
ValidatingCommands == {"mvCreate", "mCreate"}

\* the invocations that run side by side
Runs == {"run1", "run2"}

\* the prefixes of the three mkdtemp calls of an invocation: "smply-" for
\* the output directory of build, opts.machine for the directory of
\* silencableCreateMachineVersion, and the base name of its bundle.js
\* without the extension for the directory of validateBundle
Prefix(stage, machine) ==
    CASE stage = "build" -> "smply-"
      [] stage = "val" -> machine
      [] OTHER -> "bundle"

\* machine names of the invocations; one of them equals the prefix of
\* validateBundle
RunMachines == {"m1", "bundle"}

TmpDirs == {"smply-", "m1", "bundle"} \X (1..MaxSuffix)

NoDir == <<"none", 0>>

NoRun(m) ==
    [pc |-> "b_mkdtemp", machine |-> m, build |-> NoDir, val |-> NoDir,
     vb |-> NoDir, seen |-> {}]

\* machine names, as the characters they are made of
MachineNames == {<<"m", "1">>, <<"M", "1">>, <<"m", "2">>}

\* stdin is closed before a line was entered
NoLine == <<"EOF">>

\* what can come back from the prompt: a machine name, a name with a blank
\* after or before it, the empty line, or no line at all
Answers ==
    MachineNames
        \cup {n \o <<" ">> : n \in MachineNames}
        \cup {<<" ">> \o n : n \in MachineNames}
        \cup {<<>>, NoLine}

\* `machines delete -m name` as the action is entered
NoDelete(m, a) ==
    [pc |-> "d_prompt", machine |-> m, answer |-> a, out |-> <<>>,
     warned |-> <<>>, requests |-> <<>>, exit |-> "none"]

\* values of --count and --offset, as the decimal digits that were typed
CountArgs == {<<1>>, <<2>>, <<3>>}
OffsetArgs == {<<0>>, <<1>>, <<2>>, <<0, 3>>, <<4>>}

\* paginate as it is entered
NoPages(count, offset, tty, items) ==
    [pc |-> "p_start", count |-> count, offset |-> offset, tty |-> tty,
     items |-> items, from |-> 0, to |-> 0, ranges |-> <<>>, page |-> 0,
     quit |-> "none"]

\* commands that log in: `invitations accept`, `login`, and any command
\* that asks for the request headers, such as `invitations send`
AuthCommands == {"acceptInvitation", "login", "sendInvitation"}

\* the process as the action of the command is entered: `suppressed` is
\* the variable of the closure, false when the module is loaded
NoAuth(c, session, orgs) ==
    [cmd |-> c, pc |-> "a_start", suppressed |-> FALSE, inF |-> FALSE,
     session |-> session, orgs |-> orgs, checked |-> "none",
     orgPrompt |-> FALSE, thrown |-> FALSE, exit |-> "none"]

\* the pipeline before its first step
PipelineInit ==
    /\ cmd \in Commands
    /\ buildImpl \in CASE cmd = "denoMvCreate" -> {"deno"}
                        [] cmd = "validateBundle" -> {"single"}
                        [] OTHER -> {"single", "pair"}
    /\ opts \in [js : FlagValues, node : FlagValues, deno : FlagValues,
                 skipValidation : BOOLEAN]
    /\ (cmd \notin ValidatingCommands => opts.skipValidation = FALSE)
    /\ (cmd = "validateBundle" =>
            opts.js = "path" /\ opts.node = "undefined" /\ opts.deno = "undefined")
    /\ userShape \in IF cmd = "validateBundle" THEN Shapes ELSE {GoodShape}
    /\ req \in CASE cmd = "validateBundle" ->
                       {[machine |-> "none", versionReference |-> "undefined",
                         makeCurrent |-> "false"]}
                  [] cmd = "mCreate" -> MachineCallerRequests
                  [] OTHER -> CallerRequests
    /\ pc = CASE cmd = "mCreate" -> "m_getClient"
               [] cmd = "validateBundle" -> "vb_mkdtemp"
               [] OTHER -> "bfc_count"
    /\ bpc = [t \in Variants |-> "unused"]
    /\ berr = [t \in Variants |-> "none"]
    /\ bout = [t \in Variants |-> "none"]
    /\ bres = [t \in Variants |-> "none"]
    /\ selected = "none"
    /\ fsFile = [f \in Files |->
                    IF f = UserFile /\ cmd = "validateBundle" THEN "user" ELSE "none"]
    /\ temps = {}
    /\ created = {}
    /\ art = NoArt
    /\ gz = "none"
    /\ sub = NoSub
    /\ valOutcome = "none"
    /\ ticket = NoTicket
    /\ err = "none"
    /\ result = "Running"
    /\ failure = "none"
    /\ exitCode = "none"
    /\ netLog = <<>>
    /\ io = {}
    /\ stderr = {}
    /\ reported = NoReport
    /\ cnt = [s \in Steps |-> 0]
    /\ source \in [code : IF Boolean(opts.js) THEN CodeValues ELSE {"ok"},
                    edits : {0}]

Init ==
    /\ PipelineInit
    /\ runs = [i \in Runs |-> NoRun("m1")]
    /\ tmpfs = [d \in TmpDirs |-> "absent"]
    /\ del = NoDelete(<<"m", "1">>, <<"m", "1">>)
    /\ pag = NoPages(<<1>>, <<0>>, FALSE, 0)
    /\ auth = NoAuth("login", TRUE, 1)

(***************************************************************************)
(* Helpers of the actions                                                  *)
(***************************************************************************)
Alive == exitCode = "none"

\* a throw that no enclosing try of the command intercepts: the promise of
\* the command rejects with an error of this category
Reject(kind) ==
    /\ pc' = "rejected"
    /\ err' = kind

\* the pc after buildFromCommand has returned its artifact
AfterBuild ==
    IF cmd \in ValidatingCommands THEN "gzip" ELSE "getClient"

\* the _build calls a call of build() starts
StartedTasks ==
    IF buildImpl = "pair" THEN Variants ELSE {"bundled"}

(***************************************************************************)
(* buildFromCommand: source selection                                      *)
(***************************************************************************)
BuildFromCommand ==
    /\ Alive /\ pc = "bfc_count"
    /\ IF SourceCount(opts) /= 1
       THEN /\ Reject("ConfigurationError")
            /\ cnt' = [cnt EXCEPT !["select"] = @ + 1]
            /\ UNCHANGED <<selected, bpc>>
       ELSE /\ selected' = SelectedSource(opts)
            /\ CASE SelectedSource(opts) = "js" ->
                     /\ pc' = "bfc_readFile"
                     /\ err' = err
                     /\ cnt' = [cnt EXCEPT !["select"] = @ + 1]
                     /\ bpc' = bpc
                 [] SelectedSource(opts) \in {"deno", "node"} ->
                     /\ pc' = "bfc_build"
                     /\ err' = err
                     /\ cnt' = [cnt EXCEPT !["select"] = @ + 1, !["build"] = @ + 1]
                     /\ bpc' = [t \in Variants |->
                                  IF t \in StartedTasks
                                  THEN (IF buildImpl = "deno" THEN "makeTempFile"
                                        ELSE "mkdtemp")
                                  ELSE bpc[t]]
                 [] OTHER ->
                     /\ Reject("ConfigurationError")
                     /\ cnt' = [cnt EXCEPT !["select"] = @ + 1]
                     /\ bpc' = bpc
    /\ UNCHANGED <<cmd, auth, pag, del, source, runs, tmpfs, req, userShape, reported, stderr, buildImpl, opts, berr, bout, bres, fsFile, temps,
                   created, art, gz, sub, valOutcome, ticket, result, failure,
                   exitCode, netLog, io>>

\* fs.readFile(opts.js) of the raw script; the object literal is always truthy
ReadSourceFile ==
    /\ Alive /\ pc = "bfc_readFile"
    /\ io' = io \cup {"readSource"}
    /\ \/ /\ art' = [fileName |-> "basename", code |-> source.code,
                     bundled |-> "none"]
          /\ pc' = AfterBuild
          /\ err' = err
       \/ /\ Reject("FileSystemError")
          /\ art' = art
    /\ UNCHANGED <<cmd, auth, pag, del, source, runs, tmpfs, req, userShape, reported, stderr, buildImpl, opts, bpc, berr, bout, bres, selected, fsFile,
                   temps, created, gz, sub, valOutcome, ticket, result, failure, exitCode, netLog, cnt>>

(***************************************************************************)
(* build / _build of the Node CLI: one task per esbuild invocation         *)
(***************************************************************************)
\* a _build call that throws rejects build() and, through the awaits of the
\* callers, the command's promise, before any other callback runs
TaskReject(t, kind) ==
    /\ bpc' = [bpc EXCEPT ![t] = "rejected"]
    /\ berr' = [berr EXCEPT ![t] = kind]
    /\ Reject(kind)

\* a _build call goes on whenever the event loop gives it a turn; a
\* rejection of the command is taken to main's catch before that
TaskRuns(t, at) == Alive /\ pc /= "rejected" /\ bpc[t] = at

\* fs.mkdtemp(path.join(os.tmpdir(), "smply-")), before the try block
BuildMkdtemp(t) ==
    /\ TaskRuns(t, "mkdtemp")
    /\ io' = io \cup {"mkdtemp"}
    /\ \/ /\ temps' = temps \cup {BuildDir(t)}
          /\ created' = created \cup {BuildDir(t)}
          /\ bpc' = [bpc EXCEPT ![t] = "esbuild"]
          /\ UNCHANGED <<berr, pc, err>>
       \/ /\ TaskReject(t, "FileSystemError")
          /\ UNCHANGED <<temps, created>>
    /\ UNCHANGED <<cmd, auth, pag, del, source, runs, tmpfs, req, userShape, reported, stderr, buildImpl, opts, bout, bres, selected, fsFile, art, gz,
                   sub, valOutcome, ticket, result, failure, exitCode, netLog, cnt>>

\* esbuild.build: rejects, or resolves after writing the outfile
BuildEsbuild(t) ==
    /\ TaskRuns(t, "esbuild")
    /\ io' = io \cup {"esbuild"}
    /\ cnt' = [cnt EXCEPT !["esbuild"] = @ + 1]
    /\ \/ /\ berr' = [berr EXCEPT ![t] = "BuildError"]
          /\ bpc' = [bpc EXCEPT ![t] = "rm"]
          /\ UNCHANGED <<bres, fsFile, temps, created>>
       \/ \E c \in CodeValues, r \in {"clean", "errors"} :
             /\ bres' = [bres EXCEPT ![t] = r]
             /\ fsFile' = [fsFile EXCEPT ![BuildFile(t)] = c]
             /\ temps' = temps \cup {BuildFile(t)}
             /\ created' = created \cup {BuildFile(t)}
             /\ bpc' = [bpc EXCEPT ![t] = "readFile"]
             /\ berr' = berr
    /\ UNCHANGED <<cmd, auth, pag, del, source, runs, tmpfs, req, userShape, reported, stderr, buildImpl, opts, pc, bout, selected, art, gz, sub,
                   valOutcome, ticket, err, result, failure, exitCode, netLog>>

\* what _build does with the code it read back: the two checks, then return
CheckBuildOutput(r, code) ==
    IF r = "errors" THEN "BuildError"
    ELSE IF ~NonEmpty(code) THEN "BuildError"
    ELSE "none"

\* fs.readFile(outFile) and the checks of res.errors and of the code
BuildReadOutput(t) ==
    /\ TaskRuns(t, "readFile")
    /\ \/ /\ BuildFile(t) \in temps
          /\ berr' = [berr EXCEPT ![t] = CheckBuildOutput(bres[t], fsFile[BuildFile(t)])]
          /\ stderr' = IF bres[t] = "errors" THEN stderr \cup {"res.errors"} ELSE stderr
          /\ bout' = [bout EXCEPT ![t] =
                        IF CheckBuildOutput(bres[t], fsFile[BuildFile(t)]) = "none"
                        THEN fsFile[BuildFile(t)] ELSE @]
       \/ /\ berr' = [berr EXCEPT ![t] = "FileSystemError"]
          /\ UNCHANGED <<bout, stderr>>
    /\ bpc' = [bpc EXCEPT ![t] = "rm"]
    /\ UNCHANGED <<cmd, auth, pag, del, source, runs, tmpfs, req, userShape, reported, buildImpl, opts, pc, bres, selected, fsFile, temps, created,
                   art, gz, sub, valOutcome, ticket, err, result, failure, exitCode, netLog, io, cnt>>

\* finally { await fs.rm(outDir, { recursive: true, force: true }) }
BuildCleanup(t) ==
    /\ TaskRuns(t, "rm")
    /\ \/ /\ temps' = temps \ {BuildDir(t), BuildFile(t)}
          /\ fsFile' = [fsFile EXCEPT ![BuildFile(t)] = "none"]
          /\ IF berr[t] = "none"
             THEN /\ bpc' = [bpc EXCEPT ![t] = "resolved"]
                  /\ UNCHANGED <<berr, pc, err>>
             ELSE TaskReject(t, berr[t])
       \/ /\ TaskReject(t, "FileSystemError")
          /\ UNCHANGED <<temps, fsFile>>
    /\ UNCHANGED <<cmd, auth, pag, del, source, runs, tmpfs, req, userShape, reported, stderr, buildImpl, opts, bout, bres, selected, created, art, gz,
                   sub, valOutcome, ticket, result, failure, exitCode, netLog, io, cnt>>

(***************************************************************************)
(* build of the Deno CLI: a temp file and no try/finally                   *)
(***************************************************************************)
\* Deno.makeTempFile()
DenoMakeTempFile ==
    /\ TaskRuns("bundled", "makeTempFile")
    /\ io' = io \cup {"mkdtemp"}
    /\ \/ /\ temps' = temps \cup {DenoFile}
          /\ created' = created \cup {DenoFile}
          /\ fsFile' = [fsFile EXCEPT ![DenoFile] = ""]
          /\ bpc' = [bpc EXCEPT !["bundled"] = "denoEsbuild"]
          /\ UNCHANGED <<berr, pc, err>>
       \/ /\ TaskReject("bundled", "FileSystemError")
          /\ UNCHANGED <<temps, created, fsFile>>
    /\ UNCHANGED <<cmd, auth, pag, del, source, runs, tmpfs, req, userShape, reported, stderr, buildImpl, opts, bout, bres, selected, art, gz,
                   sub, valOutcome, ticket, result, failure, exitCode, netLog, cnt>>

\* esbuild.build and esbuild.stop(): a rejection leaves build() at once
DenoEsbuild ==
    /\ TaskRuns("bundled", "denoEsbuild")
    /\ io' = io \cup {"esbuild"}
    /\ cnt' = [cnt EXCEPT !["esbuild"] = @ + 1]
    /\ \/ /\ TaskReject("bundled", "BuildError")
          /\ UNCHANGED <<bres, fsFile>>
       \/ \E c \in CodeValues, r \in {"clean", "errors"} :
             /\ bres' = [bres EXCEPT !["bundled"] = r]
             /\ fsFile' = [fsFile EXCEPT ![DenoFile] = c]
             /\ bpc' = [bpc EXCEPT !["bundled"] = "denoRead"]
             /\ UNCHANGED <<berr, pc, err>>
    /\ UNCHANGED <<cmd, auth, pag, del, source, runs, tmpfs, req, userShape, reported, stderr, buildImpl, opts, bout, selected, temps, created, art, gz,
                   sub, valOutcome, ticket, result, failure, exitCode, netLog>>

\* Deno.readFile(outFile)
DenoReadFile ==
    /\ TaskRuns("bundled", "denoRead")
    /\ \/ /\ bout' = [bout EXCEPT !["bundled"] = fsFile[DenoFile]]
          /\ bpc' = [bpc EXCEPT !["bundled"] = "denoRemove"]
          /\ UNCHANGED <<berr, pc, err>>
       \/ /\ TaskReject("bundled", "FileSystemError")
          /\ bout' = bout
    /\ UNCHANGED <<cmd, auth, pag, del, source, runs, tmpfs, req, userShape, reported, stderr, buildImpl, opts, bres, selected, fsFile, temps, created,
                   art, gz, sub, valOutcome, ticket, result, failure, exitCode, netLog, io, cnt>>

\* the checks of the Deno build: the code is a Uint8Array, which is truthy
\* whatever its length
DenoCheckBuildOutput(r, code) ==
    IF r = "errors" THEN "BuildError" ELSE "none"

\* Deno.remove(outFile), then the checks and the return
DenoRemove ==
    /\ TaskRuns("bundled", "denoRemove")
    /\ \/ /\ temps' = temps \ {DenoFile}
          /\ fsFile' = [fsFile EXCEPT ![DenoFile] = "none"]
          /\ IF DenoCheckBuildOutput(bres["bundled"], bout["bundled"]) = "none"
             THEN /\ bpc' = [bpc EXCEPT !["bundled"] = "resolved"]
                  /\ UNCHANGED <<berr, pc, err>>
             ELSE TaskReject("bundled",
                             DenoCheckBuildOutput(bres["bundled"], bout["bundled"]))
       \/ /\ TaskReject("bundled", "FileSystemError")
          /\ UNCHANGED <<temps, fsFile>>
    /\ UNCHANGED <<cmd, auth, pag, del, source, runs, tmpfs, req, userShape, reported, stderr, buildImpl, opts, bout, bres, selected, created, art, gz,
                   sub, valOutcome, ticket, result, failure, exitCode, netLog, io, cnt>>

\* build() returns once every _build call has resolved; buildFromCommand
\* returns the artifact
\* mutant of AllSettled: the first _build call to resolve is enough
AnySettled(started, at) == \E t \in started : at[t] = "resolved"

\* await Promise.all([...]) goes on once every promise has resolved
AllSettled(started, at) == \A t \in started : at[t] = "resolved"

\* mutant of PairArtifact: the two results are taken in the other order
PairArtifactSwapped(out) ==
    [fileName |-> "basename", code |-> out["bundled"],
     bundled |-> out["externalized"]]

\* const [bundled, externalized] = await Promise.all([_build(.., false),
\* _build(.., true)]); the results come in the order of the calls
PairArtifact(out) ==
    [fileName |-> "basename", code |-> out["externalized"],
     bundled |-> out["bundled"]]

BuildJoin ==
    /\ Alive /\ pc = "bfc_build"
    /\ AllSettled(StartedTasks, bpc)
    /\ art' = IF buildImpl = "pair"
              THEN PairArtifact(bout)
              ELSE [fileName |-> "basename", code |-> bout["bundled"],
                    bundled |-> "none"]
    /\ pc' = AfterBuild
    /\ UNCHANGED <<cmd, auth, pag, del, source, runs, tmpfs, req, userShape, reported, stderr, buildImpl, opts, bpc, berr, bout, bres, selected, fsFile,
                   temps, created, gz, sub, valOutcome, ticket, err, result, failure, exitCode,
                   netLog, io, cnt>>

(***************************************************************************)
(* gzip and the validation of the bundle                                   *)
(***************************************************************************)
\* zlib.gzip of the code
GzipOf(c) ==
    CASE c = "" -> "gzip()"
      [] c = "ok" -> "gzip(ok)"
      [] c = "bad" -> "gzip(bad)"
      [] OTHER -> "gzip(?)"

\* mutant of AfterGzip: the skip-validation flag is ignored
AfterGzipAlwaysValidate(c, skipValidation) ==
    IF c = "migCreate" THEN "migrationCreate" ELSE "v_mkdtemp"

\* what follows `const gzippedCode = await gzip(code.code)`
AfterGzip(c, skipValidation) ==
    IF c = "migCreate" THEN "migrationCreate"
    ELSE IF ~skipValidation THEN "v_mkdtemp"
    ELSE "getClient"

Gzip ==
    /\ Alive /\ pc = "gzip"
    /\ cnt' = [cnt EXCEPT !["gzip"] = @ + 1]
    /\ \/ /\ gz' = GzipOf(art.code)
          /\ pc' = AfterGzip(cmd, opts.skipValidation)
          /\ err' = err
       \/ /\ Reject("CompressionError")
          /\ gz' = gz
    /\ UNCHANGED <<cmd, auth, pag, del, source, runs, tmpfs, req, userShape, reported, stderr, buildImpl, opts, bpc, berr, bout, bres, selected, fsFile,
                   temps, created, art, sub, valOutcome, ticket, result, failure,
                   exitCode, netLog, io>>

\* mkdtemp(path.join(os.tmpdir(), opts.machine)), before the try block
ValMkdtemp ==
    /\ Alive /\ pc = "v_mkdtemp"
    /\ io' = io \cup {"mkdtemp"}
    /\ \/ /\ temps' = temps \cup {ValDir}
          /\ created' = created \cup {ValDir}
          /\ pc' = "v_writeFile"
          /\ err' = err
       \/ /\ Reject("FileSystemError")
          /\ UNCHANGED <<temps, created>>
    /\ UNCHANGED <<cmd, auth, pag, del, source, runs, tmpfs, req, userShape, reported, stderr, buildImpl, opts, bpc, berr, bout, bres, selected, fsFile,
                   art, gz, sub, valOutcome, ticket, result, failure, exitCode,
                   netLog, cnt>>

\* writeFile(codePath, code.code); on success validateBundle is called
ValWriteFile ==
    /\ Alive /\ pc = "v_writeFile"
    /\ \/ /\ temps' = temps \cup {ValFile}
          /\ created' = created \cup {ValFile}
          /\ fsFile' = [fsFile EXCEPT ![ValFile] = art.code]
          /\ cnt' = [cnt EXCEPT !["validate"] = @ + 1]
          /\ pc' = "vb_mkdtemp"
          /\ err' = err
       \/ /\ err' = "FileSystemError"
          /\ pc' = "v_unlink"
          /\ UNCHANGED <<temps, created, fsFile, cnt>>
    /\ UNCHANGED <<cmd, auth, pag, del, source, runs, tmpfs, req, userShape, reported, stderr, buildImpl, opts, bpc, berr, bout, bres, selected,
                   art, gz, sub, valOutcome, ticket, result, failure, exitCode,
                   netLog, io>>

\* where validateBundle returns or throws to: the finally block of
\* silencableCreateMachineVersion, or the end of the validate-bundle command
AfterValidateBundle(c, e) ==
    IF c /= "validateBundle" THEN "v_unlink"
    ELSE IF e = "none" THEN "return"
    ELSE "rejected"

\* validateBundle: mkdtemp of its own directory, before its try block
VbMkdtemp ==
    /\ Alive /\ pc = "vb_mkdtemp"
    /\ \/ /\ temps' = temps \cup {VbDir}
          /\ created' = created \cup {VbDir}
          /\ pc' = "vb_copyFile"
          /\ err' = err
       \/ /\ err' = "FileSystemError"
          /\ pc' = AfterValidateBundle(cmd, "FileSystemError")
          /\ UNCHANGED <<temps, created>>
    /\ UNCHANGED <<cmd, auth, pag, del, source, runs, tmpfs, req, userShape, reported, stderr, buildImpl, opts, bpc, berr, bout, bres, selected, fsFile,
                   art, gz, sub, valOutcome, ticket, result, failure, exitCode,
                   netLog, io, cnt>>

\* copyFile(opts.js, codePath)
\* opts.js of validateBundle: the file of the user, or the file
\* silencableCreateMachineVersion wrote the code to
CallerFile == IF cmd = "validateBundle" THEN UserFile ELSE ValFile

VbCopyFile ==
    /\ Alive /\ pc = "vb_copyFile"
    /\ \/ /\ fsFile[CallerFile] /= "none"
          /\ temps' = temps \cup {VbFile}
          /\ created' = created \cup {VbFile}
          /\ fsFile' = [fsFile EXCEPT ![VbFile] = fsFile[CallerFile]]
          /\ pc' = "vb_spawn"
          /\ err' = err
       \/ /\ err' = "FileSystemError"
          /\ pc' = "vb_unlink"
          /\ UNCHANGED <<temps, created, fsFile>>
    /\ UNCHANGED <<cmd, auth, pag, del, source, runs, tmpfs, req, userShape, reported, stderr, buildImpl, opts, bpc, berr, bout, bres, selected,
                   art, gz, sub, valOutcome, ticket, result, failure, exitCode,
                   netLog, io, cnt>>

\* spawn(process.execPath, ["--input-type=module", "--eval", ...]): the child
\* starts (and then exits or never does), spawn throws, or the child emits
\* 'error', for which no listener is registered, so the process dies
VbSpawn ==
    /\ Alive /\ pc = "vb_spawn"
    /\ io' = io \cup {"spawn"}
    /\ cnt' = [cnt EXCEPT !["spawn"] = @ + 1]
    /\ \/ /\ sub' \in {"running", "hung"}
          /\ pc' = "vb_wait"
          /\ UNCHANGED <<err, result, exitCode, stderr>>
       \/ /\ err' = "ValidationError"
          /\ pc' = "vb_unlink"
          /\ UNCHANGED <<sub, result, exitCode, stderr>>
       \/ /\ pc' = "exited"
          /\ exitCode' = "1"
          /\ result' = "Crashed"
          /\ stderr' = stderr \cup {"Unhandled 'error' event"}
          /\ UNCHANGED <<sub, err>>
    /\ UNCHANGED <<cmd, auth, pag, del, source, runs, tmpfs, req, userShape, reported, buildImpl, opts, bpc, berr, bout, bres, selected, fsFile,
                   temps, created, art, gz, valOutcome, ticket, failure, netLog>>

\* what the code in a file exports: the file of the user for
\* validate-bundle, else the artifact of the build
ShapeOfCode(code) ==
    CASE code = "user" -> userShape
      [] code = "ok" -> GoodShape
      [] code = "bad" -> [GoodShape EXCEPT !.allowWrite = "missing"]
      [] OTHER -> EmptyModule

\* mutant of ScriptExit: the assertion on allowWrite is left out
ScriptExitNoWrite(shape) ==
    IF "missing" \in {shape.allowRead, shape.allowWrite, shape.default} THEN 1
    ELSE IF shape.allowRead /= "function" THEN 1
    ELSE IF shape.default \notin {"machine", "plain", "null"} THEN 1
    ELSE IF shape.default /= "machine" THEN 1
    ELSE IF shape.definition /= "ok" THEN 1
    ELSE 0

\* the exit code of node running validationScript: the import fails to link
\* when a name is not exported; then the asserts in their order: typeof
\* allowRead, typeof allowWrite, typeof machine === "object" (true of
\* null), "__xstatenode" in machine (throws on null), machine.definition
\* (the getter throws on a dangling reference)
ScriptExit(shape) ==
    IF "missing" \in {shape.allowRead, shape.allowWrite, shape.default} THEN 1
    ELSE IF shape.allowRead /= "function" THEN 1
    ELSE IF shape.allowWrite /= "function" THEN 1
    ELSE IF shape.default \notin {"machine", "plain", "null"} THEN 1
    ELSE IF shape.default /= "machine" THEN 1
    ELSE IF shape.definition /= "ok" THEN 1
    ELSE 0

\* the exit code of the validation script run on a bundle
ValidationExitCode(code) == ScriptExit(ShapeOfCode(code))

\* mutant of ExitVerdict: only a positive exit code fails the bundle
ExitVerdictPositive(code) == IF code > 0 THEN "failed" ELSE "passed"

\* what validateBundle makes of proc.exitCode
ExitVerdict(code) == IF code /= 0 THEN "failed" ELSE "passed"

\* the state of a child that has ended, by its proc.exitCode
Exited(code) ==
    CASE code = 0 -> "exit 0"
      [] code = 1 -> "exit 1"
      [] code = -1 -> "signal"
      [] OTHER -> "exit 13"

\* exit codes of a child that did not run the script to its end: null (-1
\* here) when a signal ended it, 13 when a top-level await never settles
AbnormalExits == {-1, 13}

\* the child's 'exit' event: the promise resolves with proc.exitCode, which
\* is null when a signal ended the child
OnSubprocessExit ==
    /\ Alive /\ pc = "vb_wait" /\ sub = "running"
    /\ \E code \in {ValidationExitCode(fsFile[VbFile])} \cup AbnormalExits :
          /\ valOutcome' = ExitVerdict(code)
          /\ err' = IF ExitVerdict(code) = "failed" THEN "ValidationError" ELSE err
          /\ stderr' = IF code > 0 THEN stderr \cup {"child stderr"} ELSE stderr
          /\ sub' = Exited(code)
    /\ pc' = "vb_unlink"
    /\ UNCHANGED <<cmd, auth, pag, del, source, runs, tmpfs, req, userShape, reported, buildImpl, opts, bpc, berr, bout, bres, selected, fsFile,
                   temps, created, art, gz, ticket, result, failure, exitCode,
                   netLog, io, cnt>>

\* await unlink(file).catch(() => {}) in a finally block
FinallyUnlink(at, file, next) ==
    /\ Alive /\ pc = at
    /\ \/ /\ temps' = temps \ {file}
          /\ fsFile' = [fsFile EXCEPT ![file] = "none"]
       \/ UNCHANGED <<temps, fsFile>>
    /\ pc' = next
    /\ UNCHANGED <<cmd, auth, pag, del, source, runs, tmpfs, req, userShape, reported, stderr, buildImpl, opts, bpc, berr, bout, bres, selected, created,
                   art, gz, sub, valOutcome, ticket, err, result, failure,
                   exitCode, netLog, io, cnt>>

\* mutant of FinallyRmdir: the cleanup block swallows the error in flight
FinallyRmdirSwallow(at, dir, file, next) ==
    /\ Alive /\ pc = at
    /\ \/ /\ file \notin temps
          /\ temps' = temps \ {dir}
       \/ temps' = temps
    /\ pc' = next
    /\ UNCHANGED <<cmd, auth, pag, del, source, runs, tmpfs, req, userShape, reported, stderr, buildImpl, opts, bpc, berr, bout, bres, selected, fsFile,
                   created, art, gz, sub, valOutcome, ticket, err, result, failure,
                   exitCode, netLog, io, cnt>>

\* await rmdir(dir).catch(() => {}) in a finally block: removes an empty
\* directory; then the function returns or rethrows
FinallyRmdir(at, dir, file, next) ==
    /\ Alive /\ pc = at
    /\ \/ /\ file \notin temps
          /\ temps' = temps \ {dir}
       \/ temps' = temps
    /\ IF err = "none"
       THEN pc' = next /\ err' = err
       ELSE Reject(err)
    /\ UNCHANGED <<cmd, auth, pag, del, source, runs, tmpfs, req, userShape, reported, stderr, buildImpl, opts, bpc, berr, bout, bres, selected, fsFile,
                   created, art, gz, sub, valOutcome, ticket, result, failure,
                   exitCode, netLog, io, cnt>>

VbUnlink == FinallyUnlink("vb_unlink", VbFile, "vb_rmdir")

\* the error of validateBundle, if any, passes on to the caller's finally
VbRmdir ==
    /\ Alive /\ pc = "vb_rmdir"
    /\ \/ /\ VbFile \notin temps
          /\ temps' = temps \ {VbDir}
       \/ temps' = temps
    /\ pc' = AfterValidateBundle(cmd, err)
    /\ UNCHANGED <<cmd, auth, pag, del, source, runs, tmpfs, req, userShape, reported, stderr, buildImpl, opts, bpc, berr, bout, bres, selected, fsFile,
                   created, art, gz, sub, valOutcome, ticket, err, result, failure,
                   exitCode, netLog, io, cnt>>

ValUnlink == FinallyUnlink("v_unlink", ValFile, "v_rmdir")

ValRmdir == FinallyRmdir("v_rmdir", ValDir, ValFile, "getClient")

(***************************************************************************)
(* The backend: client construction and the requests                       *)
(***************************************************************************)
\* the pc after getStatebackedClient / getHeaders has returned
AfterClient(at) ==
    IF at = "m_getClient" THEN "machinesCreate"
    ELSE IF cmd = "migCreate" THEN "gzip"
    ELSE "createVersion"

\* getStatebackedClient (getHeaders in the Deno CLI): reads the stored
\* credentials; without a session and with a failed login it exits
GetStatebackedClient ==
    /\ Alive /\ pc \in {"m_getClient", "getClient"}
    /\ io' = io \cup {"credentials"}
    /\ \/ /\ pc' = AfterClient(pc)
          /\ UNCHANGED <<result, failure, exitCode, stderr>>
       \/ /\ pc' = "exited"
          /\ result' = "Failed"
          /\ failure' = "AuthError"
          /\ stderr' = stderr \cup {"Failed to log in"}
          /\ exitCode' = "1"
    /\ UNCHANGED <<cmd, auth, pag, del, source, runs, tmpfs, req, userShape, reported, buildImpl, opts, bpc, berr, bout, bres, selected, fsFile,
                   temps, created, art, gz, sub, valOutcome, ticket, err, netLog,
                   cnt>>

\* positions of the log that hold a request of the given kind
Calls(call) == {i \in DOMAIN netLog : netLog[i].call = call}

\* the opts the publish is called with: those of the command line, or
\* those createMachine builds
PublishOpts == IF cmd = "mCreate" THEN MachineCreateRequest(req) ELSE req

\* a request is sent and the flow awaits its response
Issue(at, r, waitAt) ==
    /\ Alive /\ pc = at
    /\ netLog' = Append(netLog, r)
    /\ io' = io \cup {"network"}
    /\ pc' = waitAt

\* the last request of the log with its status set
Answered(log, status) ==
    [log EXCEPT ![Len(log)] = [@ EXCEPT !.status = status]]

\* client.machines.create(opts.machine)
MachinesCreateIssue ==
    /\ Issue("machinesCreate",
             [Request("MachineCreate", 0, 0, "none") EXCEPT !.machine = req.machine],
             "machinesCreate_wait")
    /\ UNCHANGED <<cmd, auth, pag, del, source, runs, tmpfs, req, userShape, reported, stderr, buildImpl, opts, bpc, berr, bout, bres, selected, fsFile,
                   temps, created, art, gz, sub, valOutcome, ticket, err, result,
                   failure, exitCode, cnt>>

\* without a source flag the command is done once the machine exists
AfterMachinesCreate(o) ==
    IF HasSourceFlag(o) THEN "bfc_count" ELSE "return"

MachinesCreateResponse ==
    /\ Alive /\ pc = "machinesCreate_wait"
    /\ \/ /\ netLog' = Answered(netLog, "ok")
          /\ pc' = AfterMachinesCreate(opts)
          /\ err' = err
       \/ /\ netLog' = Answered(netLog, "error")
          /\ Reject("NetworkError")
    /\ UNCHANGED <<cmd, auth, pag, del, source, runs, tmpfs, req, userShape, reported, stderr, buildImpl, opts, bpc, berr, bout, bres, selected, fsFile,
                   temps, created, art, gz, sub, valOutcome, ticket, result,
                   failure, exitCode, io, cnt>>

\* POST /machines/:machine/v
CreateVersionIssue ==
    /\ Issue("createVersion",
             [Request("CreateVersion", 0, 0, "none")
                 EXCEPT !.machine = PublishOpts.machine],
             "createVersion_wait")
    /\ UNCHANGED <<cmd, auth, pag, del, source, runs, tmpfs, req, userShape, reported, stderr, buildImpl, opts, bpc, berr, bout, bres, selected, fsFile,
                   temps, created, art, gz, sub, valOutcome, ticket, err, result,
                   failure, exitCode, cnt>>

\* mutant of AfterCreateVersion: the response status is not looked at
AfterCreateVersionUnchecked(ok) == "uploadCode"

\* where the flow goes on a response of CreateVersion
AfterCreateVersion(ok) == IF ~ok THEN "rejected" ELSE "uploadCode"

CreateVersionResponse ==
    /\ Alive /\ pc = "createVersion_wait"
    /\ \/ \E id \in 1..MaxTickets, url \in 1..MaxTickets, fields \in UploadFieldMaps :
             /\ netLog' = Answered(netLog, "ok")
             /\ ticket' = [machineVersionId |-> id, uploadUrl |-> url,
                           uploadFields |-> fields]
             /\ pc' = AfterCreateVersion(TRUE)
             /\ err' = err
       \/ /\ netLog' = Answered(netLog, "error")
          /\ pc' = AfterCreateVersion(FALSE)
          /\ err' = "NetworkError"
          /\ ticket' = ticket
    /\ UNCHANGED <<cmd, auth, pag, del, source, runs, tmpfs, req, userShape, reported, stderr, buildImpl, opts, bpc, berr, bout, bres, selected, fsFile,
                   temps, created, art, gz, sub, valOutcome, result,
                   failure, exitCode, io, cnt>>

\* mutant of UploadBody: the file is read and compressed again for the upload
UploadBodyReread ==
    IF cmd = "denoMvCreate" THEN art.code ELSE GzipOf(source.code)

\* the file field of the upload form: the Deno CLI posts the code itself,
\* the Node CLI hands the client the gzipped code
UploadBody == IF cmd = "denoMvCreate" THEN art.code ELSE gz

\* the URL the upload form is posted to
UploadUrl(t) == t.uploadUrl

\* FormData.append(name, value): a new entry at the end
FormAppend(form, name, value) == Append(form, [name |-> name, value |-> value])

\* FormData.set(name, value): the first entry of that name takes the value
\* and the other entries of that name are removed; without such an entry
\* the value is appended
FormSet(form, name, value) ==
    IF \E i \in DOMAIN form : form[i].name = name
    THEN LET first == CHOOSE i \in DOMAIN form :
                          /\ form[i].name = name
                          /\ \A j \in 1..(i - 1) : form[j].name /= name
             Other(e) == e.name /= name
         IN  Append(SubSeq(form, 1, first - 1), [name |-> name, value |-> value])
                 \o SelectSeq(SubSeq(form, first + 1, Len(form)), Other)
    ELSE FormAppend(form, name, value)

\* for (const [key, value] of Object.entries(codeUploadFields)) append
RECURSIVE AppendFields(_, _)
AppendFields(form, fields) ==
    IF fields = <<>> THEN form
    ELSE AppendFields(FormAppend(form, fields[1][1], fields[1][2]), Tail(fields))

\* the multipart form of the upload: the fields, content-type set, the file
UploadForm(fields, file) ==
    FormAppend(FormSet(AppendFields(<<>>, fields),
                       "content-type", "application/javascript"),
               "file", file)

\* POST codeUploadUrl
UploadCodeIssue ==
    /\ Issue("uploadCode",
             [Request("UploadCode", 0, UploadUrl(ticket), UploadBody)
                 EXCEPT !.form = UploadForm(ticket.uploadFields, UploadBody)],
             "uploadCode_wait")
    /\ UNCHANGED <<cmd, auth, pag, del, source, runs, tmpfs, req, userShape, reported, stderr, buildImpl, opts, bpc, berr, bout, bres, selected, fsFile,
                   temps, created, art, gz, sub, valOutcome, ticket, err, result,
                   failure, exitCode, cnt>>

\* mutant of AfterUploadCode: a failed upload is tried again
AfterUploadCodeRetry(ok) == IF ~ok THEN "uploadCode" ELSE "finalizeVersion"

\* where the flow goes on a response of UploadCode
AfterUploadCode(ok) == IF ~ok THEN "rejected" ELSE "finalizeVersion"

UploadCodeResponse ==
    /\ Alive /\ pc = "uploadCode_wait"
    /\ \E ok \in BOOLEAN :
          /\ netLog' = Answered(netLog, IF ok THEN "ok" ELSE "error")
          /\ pc' = AfterUploadCode(ok)
          /\ err' = IF ok THEN err ELSE "NetworkError"
    /\ UNCHANGED <<cmd, auth, pag, del, source, runs, tmpfs, req, userShape, reported, stderr, buildImpl, opts, bpc, berr, bout, bres, selected, fsFile,
                   temps, created, art, gz, sub, valOutcome, ticket, result,
                   failure, exitCode, io, cnt>>

\* mutant of FinalizeBody: every version is made current
FinalizeBodyCurrent(o) ==
    [clientInfo |-> o.versionReference, makeCurrent |-> "true"]

\* JSON body of the PUT: { clientInfo: opts.versionReference, makeCurrent }
FinalizeBody(o) ==
    [clientInfo |-> o.versionReference, makeCurrent |-> o.makeCurrent]

\* PUT /machines/:machine/v/:machineVersionId
FinalizeVersionIssue ==
    /\ Issue("finalizeVersion",
             [Request("FinalizeVersion", ticket.machineVersionId, 0, "none")
                 EXCEPT !.machine = PublishOpts.machine,
                        !.clientInfo = FinalizeBody(PublishOpts).clientInfo,
                        !.makeCurrent = FinalizeBody(PublishOpts).makeCurrent],
             "finalizeVersion_wait")
    /\ UNCHANGED <<cmd, auth, pag, del, source, runs, tmpfs, req, userShape, reported, stderr, buildImpl, opts, bpc, berr, bout, bres, selected, fsFile,
                   temps, created, art, gz, sub, valOutcome, ticket, err, result,
                   failure, exitCode, cnt>>

\* mutant of AfterFinalizeVersion: a failed finalize is passed over
AfterFinalizeVersionSwallow(ok) == "return"

\* where the flow goes on a response of FinalizeVersion
AfterFinalizeVersion(ok) == IF ~ok THEN "rejected" ELSE "return"

FinalizeVersionResponse ==
    /\ Alive /\ pc = "finalizeVersion_wait"
    /\ \E ok \in BOOLEAN :
          /\ netLog' = Answered(netLog, IF ok THEN "ok" ELSE "error")
          /\ pc' = AfterFinalizeVersion(ok)
          /\ err' = IF ok THEN err ELSE "NetworkError"
    /\ UNCHANGED <<cmd, auth, pag, del, source, runs, tmpfs, req, userShape, reported, stderr, buildImpl, opts, bpc, berr, bout, bres, selected, fsFile,
                   temps, created, art, gz, sub, valOutcome, ticket, result,
                   failure, exitCode, io, cnt>>

\* client.machineVersionMigrations.create(opts.machine, {..., gzippedCode})
MigrationCreateIssue ==
    /\ Issue("migrationCreate",
             [Request("MigrationCreate", 0, 0, gz) EXCEPT !.machine = req.machine],
             "migrationCreate_wait")
    /\ UNCHANGED <<cmd, auth, pag, del, source, runs, tmpfs, req, userShape, reported, stderr, buildImpl, opts, bpc, berr, bout, bres, selected, fsFile,
                   temps, created, art, gz, sub, valOutcome, ticket, err, result,
                   failure, exitCode, cnt>>

MigrationCreateResponse ==
    /\ Alive /\ pc = "migrationCreate_wait"
    /\ \/ /\ netLog' = Answered(netLog, "ok")
          /\ pc' = "return"
          /\ err' = err
       \/ /\ netLog' = Answered(netLog, "error")
          /\ Reject("NetworkError")
    /\ UNCHANGED <<cmd, auth, pag, del, source, runs, tmpfs, req, userShape, reported, stderr, buildImpl, opts, bpc, berr, bout, bres, selected, fsFile,
                   temps, created, art, gz, sub, valOutcome, ticket, result,
                   failure, exitCode, io, cnt>>

(***************************************************************************)
(* The end of the run                                                      *)
(***************************************************************************)
\* mutant of Reported: the command reports nothing
ReportedNothing(c, t) == NoReport

\* what a command that published a version tells its caller: the Node CLI
\* returns and prints the version object of the client, the Deno CLI prints
\* 'Created version:' with the versionReference it was called with
Reported(c, t) ==
    IF c = "denoMvCreate"
    THEN [machineVersionId |-> 0, versionReference |-> "opts.versionReference"]
    ELSE [machineVersionId |-> t.machineVersionId, versionReference |-> "none"]

\* the action returns, parseAsync resolves and the process ends with status 0
CommandReturn ==
    /\ Alive /\ pc = "return"
    /\ reported' = IF Calls("FinalizeVersion") /= {}
                   THEN Reported(cmd, ticket) ELSE reported
    /\ result' = "Done"
    /\ exitCode' = "0"
    /\ pc' = "exited"
    /\ UNCHANGED <<cmd, auth, pag, del, source, runs, tmpfs, req, userShape, stderr, buildImpl, opts, bpc, berr, bout, bres, selected, fsFile,
                   temps, created, art, gz, sub, valOutcome, ticket, err, failure,
                   netLog, io, cnt>>

\* the message main prints for an error: name, code and message of the
\* error, joined; an error of any category has a name and a message
Diagnostic(kind) == IF kind = "none" THEN "" ELSE kind

\* mutant of MainCatch: the error is reported and the process is left
\* running
MainCatchNoExit ==
    /\ Alive /\ pc = "rejected"
    /\ result' = "Failed"
    /\ failure' = err
    /\ stderr' = stderr \cup {err}
    /\ pc' = "failed"
    /\ UNCHANGED <<cmd, auth, pag, del, source, runs, tmpfs, req, userShape, reported, exitCode, buildImpl, opts, bpc, berr, bout,
                   bres, selected, fsFile, temps, created, art, gz, sub, valOutcome,
                   ticket, err, netLog, io, cnt>>

\* mutant of MainCatch: the error is caught and the process ends normally
MainCatchQuiet ==
    /\ Alive /\ pc = "rejected"
    /\ result' = "Failed"
    /\ failure' = err
    /\ exitCode' = "0"
    /\ pc' = "exited"
    /\ UNCHANGED <<cmd, auth, pag, del, source, runs, tmpfs, req, userShape, reported, stderr, buildImpl, opts, bpc, berr, bout, bres, selected, fsFile,
                   temps, created, art, gz, sub, valOutcome, ticket, err, netLog,
                   io, cnt>>

\* catch (err) { console.error(msg); process.exit(1); } of main
MainCatch ==
    /\ Alive /\ pc = "rejected"
    /\ result' = "Failed"
    /\ failure' = err
    /\ stderr' = stderr \cup {Diagnostic(err)}
    /\ exitCode' = "1"
    /\ pc' = "exited"
    /\ UNCHANGED <<cmd, auth, pag, del, source, runs, tmpfs, req, userShape, reported, buildImpl, opts, bpc, berr, bout, bres, selected, fsFile,
                   temps, created, art, gz, sub, valOutcome, ticket, err, netLog,
                   io, cnt>>

\* the user interrupts the process: main registers no signal handler, so
\* the process ends where it stands
Interrupt ==
    /\ Alive
    /\ result' = "Cancelled"
    /\ exitCode' = "SIGINT"
    /\ pc' = "exited"
    /\ UNCHANGED <<cmd, auth, pag, del, source, runs, tmpfs, req, userShape, reported, stderr, buildImpl, opts, bpc, berr, bout, bres, selected, fsFile,
                   temps, created, art, gz, sub, valOutcome, ticket, err, failure,
                   netLog, io, cnt>>

\* what an editor leaves in the file: a broken text repaired, another broken
EditedCode(c) == IF c = "bad" THEN "ok" ELSE "bad"

\* somebody rewrites the source file while the command holds the artifact
SourceEdit ==
    /\ Alive
    /\ art /= NoArt
    /\ source.edits < MaxEdits
    /\ source' = [code |-> EditedCode(source.code), edits |-> source.edits + 1]
    /\ UNCHANGED <<cmd, auth, pag, del, runs, tmpfs, req, userShape, reported, stderr, buildImpl,
                   opts, pc, bpc, berr, bout, bres, selected, fsFile, temps,
                   created, art, gz, sub, valOutcome, ticket, err, result,
                   failure, exitCode, netLog, io, cnt>>

\* the steps the program takes by itself
ProgramStep ==
    \/ BuildFromCommand
    \/ ReadSourceFile
    \/ \E t \in Variants : BuildMkdtemp(t)
    \/ \E t \in Variants : BuildEsbuild(t)
    \/ \E t \in Variants : BuildReadOutput(t)
    \/ \E t \in Variants : BuildCleanup(t)
    \/ DenoMakeTempFile
    \/ DenoEsbuild
    \/ DenoReadFile
    \/ DenoRemove
    \/ BuildJoin
    \/ Gzip
    \/ ValMkdtemp
    \/ ValWriteFile
    \/ VbMkdtemp
    \/ VbCopyFile
    \/ VbSpawn
    \/ OnSubprocessExit
    \/ VbUnlink
    \/ VbRmdir
    \/ ValUnlink
    \/ ValRmdir
    \/ GetStatebackedClient
    \/ MachinesCreateIssue
    \/ MachinesCreateResponse
    \/ CreateVersionIssue
    \/ CreateVersionResponse
    \/ UploadCodeIssue
    \/ UploadCodeResponse
    \/ FinalizeVersionIssue
    \/ FinalizeVersionResponse
    \/ MigrationCreateIssue
    \/ MigrationCreateResponse
    \/ CommandReturn
    \/ MainCatch

Next == ProgramStep \/ Interrupt \/ SourceEdit

Spec == Init /\ [][Next]_vars

\* the event loop runs every callback that is ready; nobody has to interrupt
FairSpec == Init /\ [][Next]_vars /\ WF_vars(ProgramStep)

(***************************************************************************)
(* Two invocations of `machine-versions create --node` side by side: each  *)
(* is a process of its own; all they share is the directory os.tmpdir().   *)
(* A directory of tmpfs is "absent", "empty", or holds the one file its    *)
(* owner writes into it, tagged with the invocation that wrote the bytes.  *)
(***************************************************************************)
\* the stage a position of an invocation belongs to
StageOf(at) ==
    CASE at \in {"b_mkdtemp", "b_esbuild", "b_readFile", "b_rm"} -> "build"
      [] at \in {"v_mkdtemp", "v_writeFile", "v_unlink", "v_rmdir"} -> "val"
      [] OTHER -> "vb"

\* the directory an invocation holds for a stage
DirOf(r, stage) ==
    CASE stage = "build" -> r.build
      [] stage = "val" -> r.val
      [] OTHER -> r.vb

WithDir(r, stage, d) ==
    CASE stage = "build" -> [r EXCEPT !.build = d]
      [] stage = "val" -> [r EXCEPT !.val = d]
      [] OTHER -> [r EXCEPT !.vb = d]

\* mutant of FreshSuffixes: the directory name is not checked against disk
AnySuffixes(prefix, fs) == 1..MaxSuffix

\* mkdtemp(prefix): the suffixes for which prefix + suffix does not exist;
\* the directory is created atomically, so an existing one is never taken
FreshSuffixes(prefix, fs) ==
    {x \in 1..MaxSuffix : fs[<<prefix, x>>] = "absent"}

AfterMkdtemp(at) ==
    CASE at = "b_mkdtemp" -> "b_esbuild"
      [] at = "v_mkdtemp" -> "v_writeFile"
      [] OTHER -> "vb_copyFile"

\* fs.mkdtemp of build, of silencableCreateMachineVersion, of validateBundle
ConcMkdtemp(i) ==
    LET r == runs[i]
        stage == StageOf(r.pc)
        prefix == Prefix(stage, r.machine)
    IN  /\ r.pc \in {"b_mkdtemp", "v_mkdtemp", "vb_mkdtemp"}
        /\ IF FreshSuffixes(prefix, tmpfs) /= {}
           THEN \E x \in FreshSuffixes(prefix, tmpfs) :
                   /\ tmpfs' = [tmpfs EXCEPT ![<<prefix, x>>] =
                                   IF @ = "absent" THEN "empty" ELSE @]
                   /\ runs' = [runs EXCEPT ![i] =
                                  [WithDir(r, stage, <<prefix, x>>)
                                      EXCEPT !.pc = AfterMkdtemp(r.pc)]]
           ELSE /\ runs' = [runs EXCEPT ![i].pc =
                                  IF stage = "vb" THEN "v_unlink" ELSE "failed"]
                /\ tmpfs' = tmpfs
        /\ UNCHANGED <<pipelineVars, del, pag, auth>>

\* esbuild writes the outfile, writeFile(codePath, code.code), and
\* copyFile(opts.js, codePath), which reads the file of the caller
ConcWrite(i) ==
    LET r == runs[i]
        d == DirOf(r, StageOf(r.pc))
    IN  /\ r.pc \in {"b_esbuild", "v_writeFile", "vb_copyFile"}
        /\ tmpfs' = [tmpfs EXCEPT ![d] =
                        IF r.pc = "vb_copyFile" THEN tmpfs[r.val] ELSE i]
        /\ runs' = [runs EXCEPT ![i] =
                       [r EXCEPT !.pc = CASE r.pc = "b_esbuild" -> "b_readFile"
                                          [] r.pc = "v_writeFile" -> "vb_mkdtemp"
                                          [] OTHER -> "vb_spawn",
                                 !.seen = IF r.pc = "vb_copyFile"
                                          THEN @ \cup {tmpfs[r.val]} ELSE @]]
        /\ UNCHANGED <<pipelineVars, del, pag, auth>>

\* fs.readFile(outFile) of build, and the child importing the copy
ConcRead(i) ==
    LET r == runs[i]
        d == DirOf(r, StageOf(r.pc))
    IN  /\ r.pc \in {"b_readFile", "vb_spawn"}
        /\ runs' = [runs EXCEPT ![i] =
                       [r EXCEPT !.pc = IF r.pc = "b_readFile" THEN "b_rm"
                                        ELSE "vb_unlink",
                                 !.seen = @ \cup {tmpfs[d]}]]
        /\ tmpfs' = tmpfs
        /\ UNCHANGED <<pipelineVars, del, pag, auth>>

\* finally { fs.rm(outDir, { recursive: true, force: true }) } of build
ConcRm(i) ==
    LET r == runs[i]
    IN  /\ r.pc = "b_rm"
        /\ tmpfs' = [tmpfs EXCEPT ![r.build] = "absent"]
        /\ runs' = [runs EXCEPT ![i] =
                       [r EXCEPT !.pc = "v_mkdtemp", !.build = NoDir]]
        /\ UNCHANGED <<pipelineVars, del, pag, auth>>

\* unlink(codePath).catch(() => {}) in the two finally blocks
ConcUnlink(i) ==
    LET r == runs[i]
        d == DirOf(r, StageOf(r.pc))
    IN  /\ r.pc \in {"vb_unlink", "v_unlink"}
        /\ tmpfs' = IF d /= NoDir /\ tmpfs[d] /= "absent"
                    THEN [tmpfs EXCEPT ![d] = "empty"] ELSE tmpfs
        /\ runs' = [runs EXCEPT ![i].pc =
                       IF r.pc = "vb_unlink" THEN "vb_rmdir" ELSE "v_rmdir"]
        /\ UNCHANGED <<pipelineVars, del, pag, auth>>

\* rmdir(tmpDir).catch(() => {}) in the two finally blocks
ConcRmdir(i) ==
    LET r == runs[i]
        stage == StageOf(r.pc)
        d == DirOf(r, stage)
    IN  /\ r.pc \in {"vb_rmdir", "v_rmdir"}
        /\ tmpfs' = IF d /= NoDir /\ tmpfs[d] = "empty"
                    THEN [tmpfs EXCEPT ![d] = "absent"] ELSE tmpfs
        /\ runs' = [runs EXCEPT ![i] =
                       [WithDir(r, stage, NoDir)
                           EXCEPT !.pc = IF r.pc = "vb_rmdir" THEN "v_unlink"
                                         ELSE "publish"]]
        /\ UNCHANGED <<pipelineVars, del, pag, auth>>

ConcNext ==
    \E i \in Runs :
        \/ ConcMkdtemp(i)
        \/ ConcWrite(i)
        \/ ConcRead(i)
        \/ ConcRm(i)
        \/ ConcUnlink(i)
        \/ ConcRmdir(i)

\* both invocations are 'machine-versions create --node entry.ts', for
\* machines that may have the same name
ConcInit ==
    /\ PipelineInit
    /\ cmd = "mvCreate"
    /\ buildImpl = "single"
    /\ opts = [js |-> "undefined", node |-> "path", deno |-> "undefined",
               skipValidation |-> FALSE]
    /\ req.machine = "m1"
    /\ runs \in [Runs -> {NoRun(m) : m \in RunMachines}]
    /\ tmpfs = [d \in TmpDirs |-> "absent"]
    /\ del = NoDelete(<<"m", "1">>, <<"m", "1">>)
    /\ pag = NoPages(<<1>>, <<0>>, FALSE, 0)
    /\ auth = NoAuth("login", TRUE, 1)

ConcSpec == ConcInit /\ [][ConcNext]_vars

(***************************************************************************)
(* machines delete: the confirmation prompt and the delete request         *)
(***************************************************************************)
\* String.prototype.toLowerCase on the characters of a name
LowerCase(n) == [i \in DOMAIN n |-> IF n[i] = "M" THEN "m" ELSE n[i]]

\* mutant of NameMatches: the comparison ignores case
NameMatchesIgnoreCase(answer, machine) == LowerCase(answer) = LowerCase(machine)

\* the negation of `confirmedMachineName !== opts.machine`
NameMatches(answer, machine) == answer = machine

\* the three console.log lines, then prompt(): readline hands over the line
\* that was entered, and the names are compared
DeletePrompt ==
    /\ del.pc = "d_prompt"
    /\ del.answer /= NoLine
    /\ del' = IF NameMatches(del.answer, del.machine)
              THEN [del EXCEPT !.pc = "d_getClient",
                               !.out = @ \o <<"!!! WARNING !!!">>]
              ELSE [del EXCEPT !.pc = "d_return",
                               !.out = @ \o <<"!!! WARNING !!!",
                                              "Machine name did not match. Aborting.">>]
    /\ UNCHANGED <<pipelineVars, runs, tmpfs, pag, auth>>

\* stdin ends before a line was entered: the question is never answered,
\* nothing keeps the event loop alive, and the process ends
DeleteStdinClosed ==
    /\ del.pc = "d_prompt"
    /\ del.answer = NoLine
    /\ del' = [del EXCEPT !.pc = "exited", !.exit = "0",
                          !.out = @ \o <<"!!! WARNING !!!">>]
    /\ UNCHANGED <<pipelineVars, runs, tmpfs, pag, auth>>

\* getStatebackedClient: a failed login prints and exits with status 1
DeleteGetClient ==
    /\ del.pc = "d_getClient"
    /\ \/ del' = [del EXCEPT !.pc = "d_delete"]
       \/ del' = [del EXCEPT !.pc = "exited", !.exit = "1",
                             !.warned = @ \o <<"Failed to log in">>]
    /\ UNCHANGED <<pipelineVars, runs, tmpfs, pag, auth>>

\* client.machines.dangerously.delete(opts.machine, ...)
DeleteIssue ==
    /\ del.pc = "d_delete"
    /\ del' = [del EXCEPT !.pc = "d_wait",
                          !.requests = Append(@, [call |-> "DeleteMachine",
                                                  machine |-> del.machine])]
    /\ UNCHANGED <<pipelineVars, runs, tmpfs, pag, auth>>

\* the response: deleted, a ConflictError (caught, a warning, return), or
\* another error (thrown on to main)
DeleteResponse ==
    /\ del.pc = "d_wait"
    /\ \/ del' = [del EXCEPT !.pc = "d_return",
                             !.out = @ \o <<"Deleted machine">>]
       \/ del' = [del EXCEPT !.pc = "d_return",
                             !.warned = @ \o <<"Machine has associated instances">>]
       \/ del' = [del EXCEPT !.pc = "d_rejected"]
    /\ UNCHANGED <<pipelineVars, runs, tmpfs, pag, auth>>

\* the action returns and the process ends with status 0
DeleteReturn ==
    /\ del.pc = "d_return"
    /\ del' = [del EXCEPT !.pc = "exited", !.exit = "0"]
    /\ UNCHANGED <<pipelineVars, runs, tmpfs, pag, auth>>

\* catch (err) { console.error(msg); process.exit(1); } of main
DeleteMainCatch ==
    /\ del.pc = "d_rejected"
    /\ del' = [del EXCEPT !.pc = "exited", !.exit = "1",
                          !.warned = @ \o <<"error">>]
    /\ UNCHANGED <<pipelineVars, runs, tmpfs, pag, auth>>

DeleteNext ==
    \/ DeletePrompt
    \/ DeleteStdinClosed
    \/ DeleteGetClient
    \/ DeleteIssue
    \/ DeleteResponse
    \/ DeleteReturn
    \/ DeleteMainCatch

DeleteInit ==
    /\ PipelineInit
    /\ cmd = "mCreate"
    /\ buildImpl = "single"
    /\ opts = [js |-> "undefined", node |-> "undefined", deno |-> "undefined",
               skipValidation |-> FALSE]
    /\ req.machine = "m1"
    /\ req.versionReference = "v1"
    /\ runs = [i \in Runs |-> NoRun("m1")]
    /\ tmpfs = [d \in TmpDirs |-> "absent"]
    /\ del \in {NoDelete(m, a) : m \in MachineNames, a \in Answers}
    /\ pag = NoPages(<<1>>, <<0>>, FALSE, 0)
    /\ auth = NoAuth("login", TRUE, 1)

DeleteSpec == DeleteInit /\ [][DeleteNext]_vars

(***************************************************************************)
(* paginate: the list commands ask the backend for one range after another *)
(***************************************************************************)
\* parseInt(digits, 10)
RECURSIVE ParseInt(_)
ParseInt(ds) ==
    IF ds = <<>> THEN 0
    ELSE 10 * ParseInt(SubSeq(ds, 1, Len(ds) - 1)) + ds[Len(ds)]

\* the length of the page getItems resolves with: the items of the
\* collection whose index lies in from..to
PageLength(from, to, items) ==
    Cardinality({k \in 0..(items - 1) : from <= k /\ k <= to})

\* pageSize, from and to before the loop
PaginateStart ==
    /\ pag.pc = "p_start"
    /\ pag' = [pag EXCEPT !.from = ParseInt(pag.offset),
                          !.to = ParseInt(pag.count) - 1,
                          !.pc = "p_getItems"]
    /\ UNCHANGED <<pipelineVars, runs, tmpfs, del, auth>>

\* getItems({ from, to }) is called
PaginateGetItems ==
    /\ pag.pc = "p_getItems"
    /\ pag' = [pag EXCEPT !.ranges = Append(@, [from |-> pag.from, to |-> pag.to,
                                                len |-> -1]),
                          !.pc = "p_page"]
    /\ UNCHANGED <<pipelineVars, runs, tmpfs, del, auth>>

\* the page arrives and is written; then the loop ends or the prompt is shown
PaginatePage ==
    /\ pag.pc = "p_page"
    /\ LET len == PageLength(pag.from, pag.to, pag.items)
       IN  pag' = IF ~pag.tty \/ len < ParseInt(pag.count)
                  THEN [pag EXCEPT !.page = len, !.pc = "p_done",
                                   !.ranges[Len(pag.ranges)].len = len]
                  ELSE [pag EXCEPT !.page = len,
                                   !.ranges[Len(pag.ranges)].len = len,
                                   !.from = @ + ParseInt(pag.count),
                                   !.to = @ + ParseInt(pag.count),
                                   !.pc = "p_prompt"]
    /\ UNCHANGED <<pipelineVars, runs, tmpfs, del, auth>>

\* the answer to "Press enter for more (q + Enter to quit)..."
PaginatePrompt ==
    /\ pag.pc = "p_prompt"
    /\ \E line \in {"", "q", "Q"} :
          pag' = [pag EXCEPT !.quit = line,
                             !.pc = IF line = "q" THEN "p_done" ELSE "p_getItems"]
    /\ UNCHANGED <<pipelineVars, runs, tmpfs, del, auth>>

PaginateNext ==
    \/ PaginateStart
    \/ PaginateGetItems
    \/ PaginatePage
    \/ PaginatePrompt

PaginateInit ==
    /\ PipelineInit
    /\ cmd = "mCreate"
    /\ buildImpl = "single"
    /\ opts = [js |-> "undefined", node |-> "undefined", deno |-> "undefined",
               skipValidation |-> FALSE]
    /\ req.machine = "m1"
    /\ req.versionReference = "v1"
    /\ runs = [i \in Runs |-> NoRun("m1")]
    /\ tmpfs = [d \in TmpDirs |-> "absent"]
    /\ del = NoDelete(<<"m", "1">>, <<"m", "1">>)
    /\ pag \in {NoPages(c, o, t, n) : c \in CountArgs, o \in OffsetArgs,
                                      t \in BOOLEAN, n \in 0..MaxItems}
    /\ auth = NoAuth("login", TRUE, 1)

PaginateSpec == PaginateInit /\ [][PaginateNext]_vars

(***************************************************************************)
(* Logging in: getHeaders, login, and the flag that keeps login from       *)
(* offering to create an org while an invitation is being accepted         *)
(***************************************************************************)
AuthFrame == UNCHANGED <<pipelineVars, runs, tmpfs, del, pag>>

\* process.exit(1)
AuthExit(a) == [a EXCEPT !.pc = "exited", !.exit = "1"]

\* mutant of ShouldOfferOrg: login does not look at the flag
ShouldOfferOrgAlways(suppressed) == TRUE

\* `if (!isOrgCreationPromptSuppressed())` of login
ShouldOfferOrg(suppressed) == ~suppressed

\* the action of the command is entered: acceptInvitation calls
\* whileSuppressingOrgCreationPrompt, which sets the flag and calls f, i.e.
\* getHeaders; login starts with its first prompt
AuthStart ==
    /\ auth.pc = "a_start"
    /\ auth' = CASE auth.cmd = "acceptInvitation" ->
                      [auth EXCEPT !.suppressed = TRUE, !.inF = TRUE,
                                   !.pc = "a_getSession"]
                 [] auth.cmd = "login" -> [auth EXCEPT !.pc = "l_email"]
                 [] OTHER -> [auth EXCEPT !.pc = "a_getSession"]
    /\ AuthFrame

\* getLoggedInSupabaseClient: with a stored session the client is returned,
\* without one login({ store: true }) is called; the call may also reject
AuthGetSession ==
    /\ auth.pc = "a_getSession"
    /\ \/ auth' = [auth EXCEPT !.pc = IF auth.session THEN "a_headers"
                                      ELSE "l_email"]
       \/ auth' = [auth EXCEPT !.pc = "a_threw", !.thrown = TRUE]
    /\ AuthFrame

\* prompt for the email address
LoginEmail ==
    /\ auth.pc = "l_email"
    /\ \E email \in {"", "user@example.com"} :
          auth' = IF email = "" THEN AuthExit(auth)
                  ELSE [auth EXCEPT !.pc = "l_signIn"]
    /\ AuthFrame

\* signInWithOtp
LoginSignIn ==
    /\ auth.pc = "l_signIn"
    /\ \/ auth' = [auth EXCEPT !.pc = "l_token"]
       \/ auth' = AuthExit(auth)
    /\ AuthFrame

\* prompt for the verification code
LoginToken ==
    /\ auth.pc = "l_token"
    /\ \E token \in {"", "123456"} :
          auth' = IF token = "" THEN AuthExit(auth)
                  ELSE [auth EXCEPT !.pc = "l_verify"]
    /\ AuthFrame

\* verifyMagicLinkOrSignup: on an error login returns at once; else the
\* default org file is removed and the flag is looked at
LoginVerify ==
    /\ auth.pc = "l_verify"
    /\ \/ auth' = [auth EXCEPT !.pc = "l_return"]
       \/ auth' = [auth EXCEPT
                      !.session = TRUE,
                      !.checked = IF auth.suppressed THEN "suppressed"
                                  ELSE "not suppressed",
                      !.pc = IF ShouldOfferOrg(auth.suppressed)
                             THEN "l_orgCount" ELSE "l_return"]
    /\ AuthFrame

\* createOrgIfNecessary: the count of orgs; with none promptForOrgCreation
\* asks whether to create one
LoginOrgCount ==
    /\ auth.pc = "l_orgCount"
    /\ \/ auth' = [auth EXCEPT !.pc = "l_return"]
       \/ auth' = [auth EXCEPT !.pc = "l_return",
                               !.orgPrompt = (auth.orgs = 0)]
    /\ AuthFrame

\* login returns: to the command `login`, or to getLoggedInSupabaseClient,
\* which looks for the session again and exits without one
LoginReturn ==
    /\ auth.pc = "l_return"
    /\ auth' = CASE auth.cmd = "login" -> [auth EXCEPT !.pc = "a_return"]
                 [] auth.session -> [auth EXCEPT !.pc = "a_headers"]
                 [] OTHER -> AuthExit(auth)
    /\ AuthFrame

\* the rest of getHeaders: the access token and the effective org
AuthHeaders ==
    /\ auth.pc = "a_headers"
    /\ \/ auth' = [auth EXCEPT !.pc = "a_returned"]
       \/ auth' = [auth EXCEPT !.pc = "a_threw", !.thrown = TRUE]
    /\ AuthFrame

\* getHeaders has returned or thrown: in acceptInvitation the finally block
\* of whileSuppressingOrgCreationPrompt clears the flag
AuthAfterHeaders ==
    /\ auth.pc \in {"a_returned", "a_threw"}
    /\ auth' = [auth EXCEPT
                   !.suppressed = IF auth.cmd = "acceptInvitation" THEN FALSE ELSE @,
                   !.inF = FALSE,
                   !.pc = IF auth.pc = "a_threw" THEN "a_rejected" ELSE "a_request"]
    /\ AuthFrame

\* the request of the command (PUT of the invitation): ok, or not ok and
\* an error is thrown
AuthRequest ==
    /\ auth.pc = "a_request"
    /\ \/ auth' = [auth EXCEPT !.pc = "a_return"]
       \/ auth' = [auth EXCEPT !.pc = "a_rejected"]
    /\ AuthFrame

\* the action returns and the process ends with status 0
AuthReturn ==
    /\ auth.pc = "a_return"
    /\ auth' = [auth EXCEPT !.pc = "exited", !.exit = "0"]
    /\ AuthFrame

\* catch (err) { console.error(msg); process.exit(1); } of main
AuthMainCatch ==
    /\ auth.pc = "a_rejected"
    /\ auth' = AuthExit(auth)
    /\ AuthFrame

AuthNext ==
    \/ AuthStart
    \/ AuthGetSession
    \/ LoginEmail
    \/ LoginSignIn
    \/ LoginToken
    \/ LoginVerify
    \/ LoginOrgCount
    \/ LoginReturn
    \/ AuthHeaders
    \/ AuthAfterHeaders
    \/ AuthRequest
    \/ AuthReturn
    \/ AuthMainCatch

AuthInit ==
    /\ PipelineInit
    /\ cmd = "mCreate"
    /\ buildImpl = "single"
    /\ opts = [js |-> "undefined", node |-> "undefined", deno |-> "undefined",
               skipValidation |-> FALSE]
    /\ req.machine = "m1"
    /\ req.versionReference = "v1"
    /\ runs = [i \in Runs |-> NoRun("m1")]
    /\ tmpfs = [d \in TmpDirs |-> "absent"]
    /\ del = NoDelete(<<"m", "1">>, <<"m", "1">>)
    /\ pag = NoPages(<<1>>, <<0>>, FALSE, 0)
    /\ auth \in {NoAuth(c, session, orgs) :
                    c \in AuthCommands, session \in BOOLEAN, orgs \in {0, 1, 2}}

AuthSpec == AuthInit /\ [][AuthNext]_vars

(***************************************************************************)
(* Properties                                                              *)
(***************************************************************************)
PublishCalls == {"CreateVersion", "UploadCode", "FinalizeVersion"}

\* the run validates the bundle: the command has the step and it is not skipped
Validates == cmd \in ValidatingCommands /\ ~opts.skipValidation

\* the source inputs that are non-empty strings
NonEmptyInputs == {k \in {"js", "node", "deno"} : opts[k] = "path"}

ValidationTemps == {ValDir, ValFile, VbDir, VbFile}

\* C1: when the validation subprocess rejects the artifact, the run ends in
\* Failed(ValidationError) and no backend request (machine creation,
\* CreateVersion, UploadCode, FinalizeVersion) was issued before, for
\* 'machine-versions create' and for 'machines create' alike.
C1_NoBackendCallBeforeValidationFailure ==
    valOutcome = "failed" =>
        /\ netLog = <<>>
        /\ (result \in {"Done", "Failed"} =>
                result = "Failed" /\ failure = "ValidationError")

\* C2: the publish phases never overlap and are gated: UploadCode is issued
\* only after CreateVersion answered with success and goes to the uploadUrl
\* of that answer, FinalizeVersion only after UploadCode answered with
\* success; after a non-2xx answer of CreateVersion neither is ever issued
\* and the run fails with a NetworkError.
C2_PhasesGated ==
    /\ \A i \in DOMAIN netLog : netLog[i].status = "pending" => i = Len(netLog)
    /\ \A i \in Calls("UploadCode") :
          /\ \E j \in Calls("CreateVersion") : j < i /\ netLog[j].status = "ok"
          /\ ticket /= NoTicket
          /\ netLog[i].url = ticket.uploadUrl
    /\ \A i \in Calls("FinalizeVersion") :
          /\ \E j \in Calls("UploadCode") : j < i /\ netLog[j].status = "ok"
          /\ netLog[i].ver = ticket.machineVersionId
    /\ (\E j \in Calls("CreateVersion") : netLog[j].status = "error") =>
          /\ Calls("UploadCode") = {}
          /\ Calls("FinalizeVersion") = {}
          /\ result /= "Done"
          /\ (result = "Failed" => failure = "NetworkError")

\* C2 witness: all three phases were issued, each after the success of the
\* one before, with a ticket other than the first the backend can return
C2_Witness ==
    /\ result = "Done"
    /\ Calls("FinalizeVersion") /= {}
    /\ ticket.machineVersionId = MaxTickets
    /\ ticket.uploadUrl = 1

\* C3: in a terminal state (Done or Failed) no temp directory or file that
\* the run created exists any more.
C3_NoTempInTerminalState ==
    result \in {"Done", "Failed"} => temps = {}

\* C4: once source selection has run, zero or several non-empty inputs give
\* a ConfigurationError and no artifact and no selection; exactly one
\* non-empty input gives no ConfigurationError and selects that source kind.
C4_SourceSelection ==
    cnt["select"] > 0 =>
        IF Cardinality(NonEmptyInputs) /= 1
        THEN /\ err = "ConfigurationError"
             /\ selected = "none"
             /\ art = NoArt
             /\ cnt["build"] = 0
             /\ "readSource" \notin io
        ELSE /\ err /= "ConfigurationError"
             /\ failure /= "ConfigurationError"
             /\ NonEmptyInputs = {selected}

\* C4 witness: two inputs were given and selection has failed the run
C4_Witness ==
    /\ cnt["select"] > 0
    /\ NonEmptyInputs = {"js", "deno"}
    /\ result = "Failed"
    /\ failure = "ConfigurationError"

\* C5: a run that ends with a ConfigurationError has performed no I/O: no
\* file read, no temp directory, no subprocess, no request to the backend.
C5_NoIOBeforeConfigurationError ==
    err = "ConfigurationError" =>
        /\ io = {}
        /\ netLog = <<>>
        /\ created = {}

\* C6: with validation skipped no validation subprocess is spawned and no
\* validation workspace is created; after compression the run goes on to
\* the publish.
C6_SkipValidation ==
    (cmd \in ValidatingCommands /\ opts.skipValidation) =>
        /\ cnt["validate"] = 0
        /\ cnt["spawn"] = 0
        /\ sub = NoSub
        /\ valOutcome = "none"
        /\ created \cap ValidationTemps = {}
        /\ (Calls("CreateVersion") /= {} => gz /= "none")

\* C6 witness: a run that skipped validation published an artifact that
\* violates the module contract
C6_Witness ==
    /\ cmd \in ValidatingCommands
    /\ opts.skipValidation
    /\ art.code = "bad"
    /\ result = "Done"
    /\ Calls("FinalizeVersion") /= {}

C8_ValidationTerminates ==
    (pc = "vb_wait") ~> (pc /= "vb_wait")

\* C9: when the run is cancelled by a user interrupt, no temp directory or
\* file created by the run survives the process.
C9_CleanupOnCancel ==
    result = "Cancelled" => temps = {}

\* C10: no step is retried: build, each esbuild invocation of it,
\* validation, compression and each backend request run at most once, and
\* a publish run that reaches Done has issued CreateVersion, UploadCode and
\* FinalizeVersion exactly once each.
C10_NoRetry ==
    /\ \A s \in Steps \ {"esbuild"} : cnt[s] <= 1
    /\ cnt["esbuild"] <= Cardinality(StartedTasks)
    /\ \A c \in PublishCalls \cup {"MachineCreate", "MigrationCreate"} :
          Cardinality(Calls(c)) <= 1
    /\ (result = "Done" /\ selected /= "none" /\ cmd /= "migCreate") =>
          \A c \in PublishCalls : Cardinality(Calls(c)) = 1

\* C10 witness: a validated two-variant publish is done
C10_Witness ==
    /\ result = "Done"
    /\ buildImpl = "pair"
    /\ cnt["build"] = 1
    /\ cnt["esbuild"] = 2
    /\ cnt["spawn"] = 1
    /\ cnt["gzip"] = 1
    /\ Calls("FinalizeVersion") /= {}

\* C11: when UploadCode or FinalizeVersion fails after CreateVersion has
\* succeeded, the failed request is the last one the run issues (no delete,
\* no rollback, no retry), the CreateVersion answer stands, and the run ends
\* in Failed with a NetworkError, never in Done.
C11_NoRollbackAfterPartialFailure ==
    \A i \in Calls("UploadCode") \cup Calls("FinalizeVersion") :
        netLog[i].status = "error" =>
            /\ i = Len(netLog)
            /\ \E j \in Calls("CreateVersion") : j < i /\ netLog[j].status = "ok"
            /\ pc \in {"rejected", "exited"}
            /\ result /= "Done"
            /\ (result = "Failed" => failure = "NetworkError")

\* C11 witness: FinalizeVersion failed after CreateVersion and UploadCode
\* had succeeded, and the run has ended in Failed
C11_Witness ==
    /\ \E i \in Calls("FinalizeVersion") : netLog[i].status = "error"
    /\ \E i \in Calls("UploadCode") : netLog[i].status = "ok"
    /\ ticket /= NoTicket
    /\ result = "Failed"

\* C12: a failing cleanup step never changes the outcome.  The cleanup of
\* a _build call (fs.rm of its output directory) leaves the call resolving
\* if its steps succeeded and throwing its own error otherwise; the
\* validator's cleanup steps (unlink, rmdir) leave the error in flight as it
\* is, and after them the run goes on if there is none and rethrows it
\* otherwise.
C12_CleanupNeverChangesOutcome ==
    [][/\ \A t \in Variants :
             (bpc[t] = "rm" /\ bpc'[t] /= "rm") =>
                 IF berr[t] = "none"
                 THEN bpc'[t] = "resolved" /\ err' = err
                 ELSE bpc'[t] = "rejected" /\ err' = berr[t]
       /\ (pc \in {"vb_unlink", "vb_rmdir", "v_unlink", "v_rmdir"}
             /\ pc' /= pc /\ exitCode' = "none") =>
                 /\ err' = err
                 /\ (pc = "v_rmdir" =>
                        pc' = IF err = "none" THEN "getClient" ELSE "rejected")
      ]_vars

\* C13: a run that ends in Failed, at whatever stage it failed, has exited
\* with a non-zero status and has written a diagnostic of its error to the
\* error stream; a run that ends in Done has exited with status zero.
C13_FailedExitsNonZero ==
    /\ result = "Failed" =>
          /\ exitCode \notin {"none", "0"}
          /\ \/ Diagnostic(failure) \in stderr
             \/ failure = "AuthError" /\ "Failed to log in" \in stderr
          /\ stderr \cap {"", "none"} = {}
    /\ result = "Done" => exitCode = "0"

\* C13 witness: a run failed by its last backend request exited non-zero
\* with the diagnostic written
C13_Witness ==
    /\ result = "Failed"
    /\ failure = "NetworkError"
    /\ \E i \in Calls("FinalizeVersion") : netLog[i].status = "error"
    /\ exitCode = "1"
    /\ "NetworkError" \in stderr

\* C14: whenever buildFromCommand has produced an artifact, from a raw
\* script, a Node entry point or a Deno entry point, the code of the
\* artifact is not empty: an empty input file or an empty bundler output
\* fails the stage instead.
C14_ArtifactNonEmpty ==
    art /= NoArt => art.code /= ""

Conforms(shape) ==
    /\ shape.allowRead = "function"
    /\ shape.allowWrite = "function"
    /\ shape.default = "machine"
    /\ shape.definition = "ok"

\* the code validateBundle was given
ValidatedCode == IF cmd = "validateBundle" THEN "user" ELSE art.code

C17_MachineCreateAllOrNothing ==
    (cmd = "mCreate" /\ HasSourceFlag(opts) /\ result \in {"Done", "Failed"}) =>
        ((\E i \in Calls("MachineCreate") : netLog[i].status = "ok")
            <=> (\E j \in Calls("FinalizeVersion") : netLog[j].status = "ok"))

\* the states of a validation subprocess that has ended
ExitedStates == {"exit 0", "exit 1", "exit 13", "signal"}

\* C18: validateBundle succeeds exactly if the exit code of its subprocess
\* is 0: with any other exit code, and with the null of a child ended by a
\* signal, it throws a ValidationError; with 0 it returns without an error.
C18_ExitCodeZeroIffValid ==
    sub \in ExitedStates =>
        /\ (valOutcome = "passed" <=> sub = "exit 0")
        /\ (sub /= "exit 0" =>
               valOutcome = "failed" /\ "ValidationError" \in {err, failure})
        /\ (sub = "exit 0" /\ pc \in {"vb_unlink", "vb_rmdir"} => err = "none")

\* C18 witness: a bundle that honours the contract failed validation
\* because a signal ended the subprocess
C18_Witness ==
    /\ sub = "signal"
    /\ Conforms(ShapeOfCode(ValidatedCode))
    /\ valOutcome = "failed"
    /\ result = "Failed"
    /\ failure = "ValidationError"

\* C19: Failed and Done are terminal: once the run has failed or is done,
\* nothing of the pipeline happens any more: no build step continues or
\* starts, no validation subprocess is spawned, nothing is compressed, no
\* backend request is issued, no file is touched.
C19_TerminalStatesFinal ==
    [][(result \in {"Done", "Failed"}) =>
            UNCHANGED <<bpc, berr, bout, bres, fsFile, temps, created, art, gz,
                        sub, valOutcome, ticket, netLog, io, cnt, reported>>]_vars

\* C19 witness: the run failed on one variant of the two-variant build
\* while a step of the other variant was still to run
C19_Witness ==
    /\ result = "Failed"
    /\ buildImpl = "pair"
    /\ bpc["bundled"] = "rejected"
    /\ bpc["externalized"] \in {"mkdtemp", "esbuild", "readFile", "rm"}
    /\ cnt["gzip"] = 0
    /\ netLog = <<>>

\* C20: the multipart form of UploadCode holds every key of the
\* uploadFields the backend returned with its value unchanged, whatever
\* the mapping is (one with a content-type key included), each before the
\* file field, and the file field is the last field of the form.
C20_UploadFieldsVerbatim ==
    \A i \in Calls("UploadCode") :
        LET form == netLog[i].form
            fields == ticket.uploadFields
        IN  /\ Len(form) > 0
            /\ form[Len(form)].name = "file"
            /\ \A j \in DOMAIN fields :
                  \E k \in 1..(Len(form) - 1) :
                      form[k] = [name |-> fields[j][1], value |-> fields[j][2]]

\* C21: the publish request is carried unchanged through the phases:
\* CreateVersion and FinalizeVersion name the machine the publish was
\* called for, FinalizeVersion sends the versionReference and makeCurrent
\* it was called with, and the machineVersionId of FinalizeVersion is the
\* one CreateVersion returned in this run.
C21_RequestCarriedUnchanged ==
    LET called == IF cmd = "mCreate"
                  THEN [machine |-> req.machine,
                        versionReference |->
                            IF req.versionReference = "undefined"
                            THEN "0.0.1" ELSE req.versionReference,
                        makeCurrent |-> "true"]
                  ELSE req
    IN  /\ \A i \in Calls("CreateVersion") : netLog[i].machine = called.machine
        /\ \A i \in Calls("FinalizeVersion") :
              /\ netLog[i].machine = called.machine
              /\ netLog[i].clientInfo = called.versionReference
              /\ netLog[i].makeCurrent = called.makeCurrent
              /\ ticket /= NoTicket
              /\ netLog[i].ver = ticket.machineVersionId
        /\ \A i \in Calls("MachineCreate") : netLog[i].machine = req.machine

\* C21 witness: a version that is not to be made current was finalized for
\* the second machine with the second identifier the backend can return
C21_Witness ==
    /\ cmd = "mvCreate"
    /\ req.machine = "m2"
    /\ req.makeCurrent = "false"
    /\ ticket.machineVersionId = MaxTickets
    /\ \E i \in Calls("FinalizeVersion") :
          netLog[i].status = "ok" /\ netLog[i].makeCurrent = "false"
    /\ result = "Done"

\* C22: in the two-variant build the two _build calls run concurrently and,
\* in whatever order their steps interleave, an artifact is returned only
\* once both have resolved; if either has rejected there is no artifact,
\* not even from the variant that succeeded, and compression never starts
\* with a variant unfinished.
C22_BothVariantsBeforeArtifact ==
    (buildImpl = "pair" /\ selected \in {"node", "deno"}) =>
        /\ (art /= NoArt => \A t \in Variants : bpc[t] = "resolved")
        /\ (cnt["gzip"] > 0 \/ gz /= "none" \/ PublishCalls \cap {netLog[i].call : i \in DOMAIN netLog} /= {}
               => \A t \in Variants : bpc[t] = "resolved")
        /\ ((\E t \in Variants : bpc[t] = "rejected") =>
               /\ art = NoArt
               /\ cnt["gzip"] = 0
               /\ pc \in {"rejected", "exited"}
               /\ result /= "Done")

\* C22 witness: the externalized variant had resolved when the inlined
\* variant, started first, rejected; the run failed without an artifact
C22_Witness ==
    /\ buildImpl = "pair"
    /\ bpc["externalized"] = "resolved"
    /\ bout["externalized"] = "ok"
    /\ bpc["bundled"] = "rejected"
    /\ art = NoArt
    /\ result = "Failed"

\* C23: the artifact of the two-variant build has, whichever _build call
\* finished first, the output of the build with xstate externalized as its
\* code and the output of the fully inlined build as bundled, and the base
\* name of the entry point as its fileName.
C23_VariantsNotSwapped ==
    (buildImpl = "pair" /\ selected \in {"node", "deno"} /\ art /= NoArt) =>
        /\ art.code = bout["externalized"]
        /\ art.bundled = bout["bundled"]
        /\ art.fileName = "basename"

\* C23 witness: the two variants gave different outputs and the artifact
\* holds each in its place
C23_Witness ==
    /\ buildImpl = "pair"
    /\ bout["externalized"] = "ok"
    /\ bout["bundled"] = "bad"
    /\ art.code = "ok"
    /\ art.bundled = "bad"

\* the positions of the flow inside validateBundle
InValidateBundle ==
    pc \in {"vb_mkdtemp", "vb_copyFile", "vb_spawn", "vb_wait", "vb_unlink",
            "vb_rmdir"}

\* C24: validation leaves the caller's file untouched: while validateBundle
\* runs and when it has returned or thrown (bundle valid or invalid, copy
\* or spawn failed), the file it was given still exists with the contents
\* it had, and no step of validateBundle creates, writes or removes a path
\* other than the temp directory it made and the copy inside it.
C24_CallerFileUntouched ==
    /\ [](cmd = "validateBundle" => fsFile[UserFile] = "user")
    /\ []((cmd /= "validateBundle" /\ cnt["validate"] > 0
              /\ (InValidateBundle \/ pc = "v_unlink")) =>
                /\ ValFile \in temps
                /\ fsFile[ValFile] = art.code)
    /\ [][InValidateBundle =>
            /\ \A f \in DOMAIN fsFile :
                  f /= "bundle-XXXXXX/bundle.mjs" => fsFile'[f] = fsFile[f]
            /\ \A q \in (temps \cup temps') \
                         {VbDir, "bundle-XXXXXX/bundle.mjs"} :
                  q \in temps /\ q \in temps']_vars

\* C24 witness: validate-bundle found the user's file invalid, its own
\* directory and copy are gone, and the file of the user is as it was
C24_Witness ==
    /\ cmd = "validateBundle"
    /\ valOutcome = "failed"
    /\ result = "Failed"
    /\ "bundle-XXXXXX/bundle.mjs" \in created
    /\ temps = {}
    /\ fsFile[UserFile] = "user"

\* the directories an invocation has made and not yet removed
Held(i) == {runs[i].build, runs[i].val, runs[i].vb} \ {NoDir}

\* C25: two publish invocations that run side by side, also for the same
\* machine name and the same entry point, never share a temp workspace:
\* the directories they hold are different, a directory an invocation
\* holds exists and holds nothing but what that invocation put there
\* (the cleanup of the other never removed it or its file), and what an
\* invocation reads back is what it wrote itself.
C25_NoSharedWorkspace ==
    \A i \in Runs :
        /\ \A j \in Runs \ {i} : Held(i) \cap Held(j) = {}
        /\ \A d \in Held(i) : tmpfs[d] \in {"empty", i}
        /\ runs[i].seen \subseteq {i}
        /\ (runs[i].pc \in {"b_readFile", "b_rm"} => tmpfs[runs[i].build] = i)
        /\ (runs[i].pc \in {"vb_mkdtemp", "vb_copyFile", "vb_spawn", "vb_unlink"}
              => tmpfs[runs[i].val] = i)
        /\ (runs[i].pc = "vb_spawn" => tmpfs[runs[i].vb] = i)

\* C25 witness: both invocations publish a machine named like the prefix
\* of validateBundle; three directories with that prefix exist at once,
\* two of one invocation and one of the other, each with its owner's file
C25_Witness ==
    /\ \A i \in Runs : runs[i].machine = "bundle"
    /\ runs["run1"].pc = "vb_spawn"
    /\ runs["run2"].pc = "vb_mkdtemp"
    /\ runs["run1"].val[1] = "bundle"
    /\ runs["run1"].vb[1] = "bundle"
    /\ runs["run2"].val[1] = "bundle"
    /\ runs["run1"].seen = {"run1"}
    /\ runs["run2"].seen = {"run2"}

\* C26: the bytes published are the bytes validated. In a run of a
\* validating command with validation on, the child is started on a file
\* holding the code of the artifact, every upload carries the compression
\* of that code, and the artifact, once buildFromCommand has returned it,
\* never changes and no source is read or built again, whatever happens
\* to the source file afterwards.
C26_PublishedIsValidated ==
    /\ [](Validates =>
            \A i \in Calls("UploadCode") :
                /\ valOutcome = "passed"
                /\ netLog[i].body = CASE art.code = "" -> "gzip()"
                                      [] art.code = "ok" -> "gzip(ok)"
                                      [] OTHER -> "gzip(bad)")
    /\ [][(Validates /\ sub = NoSub /\ sub' /= NoSub)
            => fsFile[VbFile] = art.code /\ art' = art]_vars
    /\ [][(art /= NoArt)
            => /\ art' = art
               /\ cnt'["esbuild"] = cnt["esbuild"]
               /\ cnt'["build"] = cnt["build"]
               /\ (gz /= "none" => gz' = gz)]_vars

\* C26 witness: the bundle given with --js was rewritten after it was read
\* and before it was validated; the upload carries the text that was read
C26_Witness ==
    /\ Validates
    /\ selected = "js"
    /\ source.edits = 1
    /\ source.code /= art.code
    /\ valOutcome = "passed"
    /\ Calls("UploadCode") /= {}
    /\ \A i \in Calls("UploadCode") : netLog[i].body = GzipOf(art.code)

\* C27: in the two-variant build, when the command has failed and the
\* process has exited with code 1, a _build call that was still in
\* progress at that moment has had its temp directory removed.
C27_RunningVariantCleanedBeforeExit ==
    \A t \in Variants :
        (/\ buildImpl = "pair"
         /\ result = "Failed"
         /\ exitCode = "1"
         /\ bpc[t] \in {"esbuild", "readFile", "rm"})
            => BuildDir(t) \notin temps

\* C28: machines delete sends the delete request only when the line entered
\* at the prompt is exactly the machine name of the command line, and then
\* for that machine; after any other line (empty, other case, a blank
\* before or after the name, another name) no request is ever sent, the
\* mismatch is reported, nothing is written as an error, and the command ends
\* with status 0.
C28_DeleteOnlyOnExactName ==
    /\ \A i \in DOMAIN del.requests :
          /\ del.answer = del.machine
          /\ del.requests[i].machine = del.machine
    /\ Len(del.requests) <= 1
    /\ (del.answer /= del.machine =>
          /\ del.requests = <<>>
          /\ del.warned = <<>>
          /\ del.exit \in {"none", "0"}
          /\ del.pc \in {"d_prompt", "d_return", "exited"})
    /\ (del.answer /= del.machine /\ del.pc = "exited" => del.exit = "0")
    /\ (del.answer = del.machine /\ del.pc \in {"d_wait", "d_return", "d_rejected"}
          => Len(del.requests) = 1)

\* C28 witness: the name was entered in another case; the command said so
\* and ended with status 0 without a request
C28_Witness ==
    /\ del.machine = <<"m", "1">>
    /\ del.answer = <<"M", "1">>
    /\ del.pc = "exited"
    /\ del.exit = "0"
    /\ del.requests = <<>>
    /\ del.out = <<"!!! WARNING !!!", "Machine name did not match. Aborting.">>

\* C29: every range paginate asks getItems for holds exactly pageSize
\* indexes (to - from + 1 = pageSize), the first range starts at the
\* offset, each later range starts right after the one before it ended,
\* and no range is asked for after a page shorter than pageSize, after the
\* answer q, or when the output is not a terminal.
C29_ConsecutiveWindows ==
    LET pageSize == ParseInt(pag.count)
        n == Len(pag.ranges)
    IN  /\ \A i \in 1..n : pag.ranges[i].to - pag.ranges[i].from + 1 = pageSize
        /\ (n > 0 => pag.ranges[1].from = ParseInt(pag.offset))
        /\ \A i \in 2..n : pag.ranges[i].from = pag.ranges[i - 1].to + 1
        /\ (~pag.tty => n <= 1)
        /\ \A i \in 1..(n - 1) : pag.ranges[i].len = pageSize
        /\ (pag.quit = "q" => pag.pc = "p_done")

\* C30: the flag that suppresses the org-creation prompt is true exactly
\* while the function given to whileSuppressingOrgCreationPrompt runs: true
\* from the call until the function has returned or thrown, false before
\* and after. A login while an invitation is accepted finds the flag set
\* and never shows the org-creation prompt; a login of any other command
\* finds it clear.
C30_SuppressedExactlyDuringCall ==
    /\ (auth.inF <=> auth.suppressed)
    /\ (auth.inF <=> (auth.cmd = "acceptInvitation"
                       /\ \/ auth.pc \in {"a_getSession", "l_email", "l_signIn",
                                          "l_token", "l_verify", "l_return",
                                          "a_headers", "a_returned", "a_threw"}
                          \/ auth.pc = "exited" /\ auth.exit = "1"
                                /\ auth.checked = "none" /\ ~auth.thrown
                                /\ ~auth.session))
    /\ (auth.pc \in {"a_request", "a_rejected", "a_return"} => ~auth.suppressed)
    /\ (auth.cmd = "acceptInvitation" =>
            /\ ~auth.orgPrompt
            /\ auth.checked \in {"none", "suppressed"}
            /\ auth.pc /= "l_orgCount")
    /\ (auth.cmd /= "acceptInvitation" =>
            /\ auth.checked \in {"none", "not suppressed"}
            /\ ~auth.suppressed)

\* C30 witness: an invitation was accepted by a user without a session and
\* without an org; the login inside found the flag set, showed no prompt,
\* and the flag was clear again when the command ended
C30_Witness ==
    /\ auth.cmd = "acceptInvitation"
    /\ auth.orgs = 0
    /\ auth.checked = "suppressed"
    /\ ~auth.orgPrompt
    /\ ~auth.suppressed
    /\ auth.pc = "exited"
    /\ auth.exit = "0"

====
